---- MODULE Spec2Model ----
(***************************************************************************)
(* Catalog resource manager of the book service (routes/auth/index.ts):    *)
(* the Express routes over the tables Books, Author and Books_Authors,     *)
(* and the sign-in route (routes/auth/login.ts).                           *)
(* One action per route; the deferred author-upsert and link queries of    *)
(* POST /books are separate steps because the handler does not await them. *)
(***************************************************************************)
EXTENDS Integers, Sequences, FiniteSets, TLC

VARIABLES
    books,      \* table Books: a set of rows
    authors,    \* table Author: a set of rows [author_id, author_name]
    links,      \* table Books_Authors: a set of rows [isbn13, author_id]
    tasks,      \* queries of POST /books still in flight, as a sequence
    cascade,    \* schema: Books_Authors.isbn13 REFERENCES Books ON DELETE CASCADE
    accounts,   \* Account joined with Account_Credential: a set of rows
    scan,       \* a client that follows nextPage: its offset and what it got
    ins,        \* history: per ISBN, the insert that created the present row
    nreq,       \* history: the number of writing requests handled so far
    pages,      \* paginated scans between their two queries
    last        \* the request just handled: its inputs and its response

vars == <<books, authors, links, tasks, cascade, accounts, scan, ins, nreq, pages, last>>

----------------------------------------------------------------------------
(* Values.  A JavaScript number that is undefined/null, or a text that is   *)
(* no number, is one of two integers outside every range the code tests.    *)

Undefined == -99
NotANumber == -98
NoString == "undefined"
NullObject == [isNull |-> TRUE]

\* ISBNs are counted in units of 10^12, so Math.pow(10, 13) is 10 units.
PowTen13 == 10

\* Deferred author queries that may be in flight at once.
MaxTasks == 3

\* Paginated scans that may be between their two queries at once.
MaxPages == 1

\* Requests other than the keyed and list reads (POST /books, DELETE, PUT,
\* paginated scans) in one behaviour.
MaxRequests == 3

\* Author names in alphabetical order.
NameOrder == <<"A", "B">>
Names == {NameOrder[i] : i \in 1..Len(NameOrder)}
NameRank(n) == CHOOSE i \in 1..Len(NameOrder) : NameOrder[i] = n

IsNumber(v) == v # Undefined /\ v # NotANumber

\* validationFunctions (core/utilities): presence and type predicates.
isNumberProvided(v) == IsNumber(v)
isStringProvided(v) == v # NoString

\* JavaScript relational operators: a comparison with undefined or NaN is false.
JsGe(a, b) == IsNumber(a) /\ IsNumber(b) /\ a >= b
JsLe(a, b) == IsNumber(a) /\ IsNumber(b) /\ a <= b
JsLt(a, b) == IsNumber(a) /\ IsNumber(b) /\ a < b
JsGt(a, b) == IsNumber(a) /\ IsNumber(b) /\ a > b

Max(S) == CHOOSE x \in S : \A y \in S : y <= x
Range(s) == {s[i] : i \in 1..Len(s)}

----------------------------------------------------------------------------
(* Responses.  response.send answers the request once; a second send on    *)
(* the same response throws (headers already sent).                        *)

ServerError == "server error - contact support"

\* What `last` records of a request: the route, its inputs, the response that
\* was sent (r), the number of storage queries issued and the Books returned.
Response(op, req, r, queries, results) ==
    [op |-> op, req |-> req, status |-> r.status, message |-> r.message,
     sends |-> r.sends, queries |-> queries, results |-> results]

\* response.status(s).send(m): answers when nothing was sent yet; otherwise
\* the attempt is counted and throws.
Unsent == [status |-> 0, message |-> "", sends |-> 0]
Send(r, status, message) ==
    IF r.sends = 0
    THEN [status |-> status, message |-> message, sends |-> 1]
    ELSE [r EXCEPT !.sends = @ + 1]

----------------------------------------------------------------------------
(* Rows and the Book wire shape.                                           *)

NullAuthors == <<"NULL">>

Row(isbn13, publication_year, original_title, title, r, image_url, image_small_url) ==
    [isbn13 |-> isbn13, publication_year |-> publication_year,
     original_title |-> original_title, title |-> title,
     rating_avg |-> r.average, rating_count |-> r.count,
     rating_1_star |-> r.rating1, rating_2_star |-> r.rating2,
     rating_3_star |-> r.rating3, rating_4_star |-> r.rating4,
     rating_5_star |-> r.rating5,
     image_url |-> image_url, image_small_url |-> image_small_url]

\* toBook: a result row (the Books columns and the column authors) as IBook.
toBook(row) ==
    [isbn13 |-> row.isbn13,
     authors |-> row.authors,
     publication |-> row.publication_year,
     original_title |-> row.original_title,
     title |-> row.title,
     ratings |-> [average |-> row.rating_avg, count |-> row.rating_count,
                  rating_1 |-> row.rating_1_star, rating_2 |-> row.rating_2_star,
                  rating_3 |-> row.rating_3_star, rating_4 |-> row.rating_4_star,
                  rating_5 |-> row.rating_5_star],
     icons |-> [large |-> row.image_url, small |-> row.image_small_url]]

WithAuthors(b, a) ==
    [isbn13 |-> b.isbn13, publication_year |-> b.publication_year,
     original_title |-> b.original_title, title |-> b.title,
     rating_avg |-> b.rating_avg, rating_count |-> b.rating_count,
     rating_1_star |-> b.rating_1_star, rating_2_star |-> b.rating_2_star,
     rating_3_star |-> b.rating_3_star, rating_4_star |-> b.rating_4_star,
     rating_5_star |-> b.rating_5_star,
     image_url |-> b.image_url, image_small_url |-> b.image_small_url,
     authors |-> a]

\* The Author rows joined to a Book:
\* books b JOIN Books_Authors ba ON b.isbn13 = ba.isbn13
\*         JOIN Author a ON ba.Author_id = a.Author_id
JoinedAuthors(isbn13) ==
    {a \in authors : \E l \in links : l.isbn13 = isbn13 /\ l.author_id = a.author_id}

\* string_agg(a.Author_name, ', ' ORDER BY a.Author_name) over joined Author
\* rows: their names in alphabetical order.  The text is modelled as the
\* sequence of its ', '-separated names.
RECURSIVE string_agg(_)
string_agg(S) ==
    IF S = {} THEN <<>>
    ELSE LET a == CHOOSE x \in S : \A y \in S :
                     \/ NameRank(x.author_name) < NameRank(y.author_name)
                     \/ /\ x.author_name = y.author_name
                        /\ x.author_id <= y.author_id
         IN  <<a.author_name>> \o string_agg(S \ {a})

\* The Books rows that survive the inner join (at least one joined Author).
Joined(S) == {b \in S : JoinedAuthors(b.isbn13) # {}}

\* The grouped result row of a Book: its columns and the aggregated authors.
ViewRow(b) == WithAuthors(b, string_agg(JoinedAuthors(b.isbn13)))

----------------------------------------------------------------------------
(* POST /books                                                             *)

\* request.body.entry.authors is modelled as the sequence of its
\* ', '-separated names; NoText is an authors field that is undefined.
NoText == <<>>
isTextProvided(t) == t # NoText

\* authors.split(", ")
split(text) == text

InvalidMsg(name) ==
    CASE name = "ISBN" -> "Invalid or missing ISBN - please refer to documentation"
      [] name = "Authors" -> "Invalid or missing Authors - please refer to documentation"
      [] name = "Publication" -> "Invalid or missing Publication - please refer to documentation"
      [] name = "Original Title" -> "Invalid or missing Original Title - please refer to documentation"
      [] name = "Title" -> "Invalid or missing Title - please refer to documentation"
      [] name = "Rating" -> "Invalid or missing Rating - please refer to documentation"
      [] name = "Image Url" -> "Invalid or missing Image Url - please refer to documentation"
      [] name = "Image Small Url" -> "Invalid or missing Image Small Url - please refer to documentation"

\* verifyElement: answers 400 when the element is invalid, and returns.
verifyElement(isValid, name, r) ==
    IF ~isValid THEN Send(r, 400, InvalidMsg(name)) ELSE r

RatingsShapeOk(ratings) ==
    /\ ratings # NullObject
    /\ ratings.average # Undefined /\ JsGe(ratings.average, 1) /\ JsLe(ratings.average, 5)
    /\ ratings.count # Undefined /\ JsGe(ratings.count, 0)
    /\ ratings.rating1 # Undefined /\ JsGe(ratings.rating1, 0)
    /\ ratings.rating2 # Undefined /\ JsGe(ratings.rating2, 0)
    /\ ratings.rating3 # Undefined /\ JsGe(ratings.rating3, 0)
    /\ ratings.rating4 # Undefined /\ JsGe(ratings.rating4, 0)
    /\ ratings.rating5 # Undefined /\ JsGe(ratings.rating5, 0)

\* The validator's eight verifyElement calls, in order.
InsertChecks(e) ==
    << [name |-> "ISBN",
        ok |-> isNumberProvided(e.isbn13) /\ JsGe(e.isbn13, 0)],
       [name |-> "Authors", ok |-> isTextProvided(e.authors)],
       [name |-> "Publication",
        ok |-> isNumberProvided(e.publication) /\ JsGe(e.publication, 0)],
       [name |-> "Original Title", ok |-> isStringProvided(e.original_title)],
       [name |-> "Title", ok |-> isStringProvided(e.title)],
       [name |-> "Rating", ok |-> RatingsShapeOk(e.ratings)],
       [name |-> "Image Url",
        ok |-> e.icons # NullObject /\ e.icons.large # NoString
               /\ isStringProvided(e.icons.large)],
       [name |-> "Image Small Url",
        ok |-> e.icons # NullObject /\ e.icons.small # NoString
               /\ isStringProvided(e.icons.small)] >>

\* The validator middleware: every failed check sends; a send after the first
\* throws, which ends the middleware before next() is reached.
RECURSIVE RunChecks(_, _, _)
RunChecks(checks, i, r) ==
    IF i > Len(checks) THEN [r |-> r, next |-> TRUE]
    ELSE IF checks[i].ok THEN RunChecks(checks, i + 1, r)
    ELSE IF r.sends > 0
         THEN [r |-> verifyElement(FALSE, checks[i].name, r), next |-> FALSE]
         ELSE RunChecks(checks, i + 1, verifyElement(FALSE, checks[i].name, r))

InsertValidator(e) == RunChecks(InsertChecks(e), 1, Unsent)

\* Mutant: title and original_title bound to each other's column.
InsertValuesSwapped(e) ==
    Row(e.isbn13, e.publication, e.title, e.original_title, e.ratings,
        e.icons.large, e.icons.small)

\* The row of the INSERT INTO Books statement.
InsertValues(e) ==
    Row(e.isbn13, e.publication, e.original_title, e.title, e.ratings,
        e.icons.large, e.icons.small)

\* The deferred queries of one author of the forEach loop.
AuthorTask(isbn13, author, k) ==
    [isbn13 |-> isbn13, author |-> author, k |-> k, stage |-> "upsert", author_id |-> 0]

NoInsert == [isNull |-> TRUE]

\* Express's final handler after a synchronous throw: 500 unless the response
\* was already sent.
ExpressError(r) == IF r.sends = 0 THEN Send(r, 500, "Internal Server Error") ELSE r

\* The handler reads authors.split, ratings.average and icons.large before it
\* issues the query: each throws a TypeError on undefined/null.
InsertHandlerThrows(e) ==
    ~isTextProvided(e.authors) \/ e.ratings = NullObject \/ e.icons = NullObject

InsertCatchServerError(r, duplicate) == Send(r, 500, ServerError)

\* The catch of the Book INSERT: a duplicate key is 'Book exists', anything
\* else the server error.
InsertCatch(r, duplicate) ==
    IF duplicate THEN Send(r, 400, "Book exists") ELSE Send(r, 500, ServerError)

\* The then of the Book INSERT: 201; when that send throws, the catch runs.
InsertThen(r) ==
    LET r1 == Send(r, 201, "Book successfully added.")
    IN  IF r.sends > 0 THEN InsertCatch(r1, FALSE) ELSE r1

\* Mutant: no unique key on isbn13, every INSERT adds its row.
InsertOutcomeNoKey(e, dbOk) ==
    LET v == InsertValidator(e)
    IN  IF ~v.next
        THEN [r |-> v.r, queries |-> 0, inserted |-> FALSE]
        ELSE IF InsertHandlerThrows(e)
        THEN [r |-> ExpressError(v.r), queries |-> 0, inserted |-> FALSE]
        ELSE IF ~IsNumber(e.isbn13) \/ ~dbOk
        THEN [r |-> InsertCatch(v.r, FALSE), queries |-> 1, inserted |-> FALSE]
        ELSE [r |-> InsertThen(v.r), queries |-> 1, inserted |-> TRUE]

\* The outcome of POST /books with entry e; dbOk = FALSE is a storage failure
\* of the INSERT other than a duplicate key.
InsertOutcome(e, dbOk) ==
    LET v == InsertValidator(e)
    IN  IF ~v.next
        THEN [r |-> v.r, queries |-> 0, inserted |-> FALSE]
        ELSE IF InsertHandlerThrows(e)
        THEN [r |-> ExpressError(v.r), queries |-> 0, inserted |-> FALSE]
        ELSE IF ~IsNumber(e.isbn13) \/ ~dbOk
        THEN [r |-> InsertCatch(v.r, FALSE), queries |-> 1, inserted |-> FALSE]
        ELSE IF \E b \in books : b.isbn13 = e.isbn13
        THEN [r |-> InsertCatch(v.r, TRUE), queries |-> 1, inserted |-> FALSE]
        ELSE [r |-> InsertThen(v.r), queries |-> 1, inserted |-> TRUE]

PostBook(e, dbOk) ==
    LET o == InsertOutcome(e, dbOk)
        names == split(e.authors)
    IN  /\ Cardinality(tasks) + Len(e.authors) <= MaxTasks
        /\ last' = Response("insert", [entry |-> e, dbOk |-> dbOk], o.r, o.queries, <<>>)
        /\ IF o.inserted
           THEN /\ books' = books \cup {InsertValues(e)}
                /\ tasks' = tasks \cup
                       {AuthorTask(e.isbn13, names[k], k) : k \in 1..Len(names)}
                /\ ins' = [ins EXCEPT ![e.isbn13] =
                       [entry |-> e, status |-> o.r.status,
                        fresh |-> /\ \A l \in links : l.isbn13 # e.isbn13
                                  /\ \A t \in tasks : t.isbn13 # e.isbn13,
                        overlap |-> \E t \in tasks :
                                       /\ t.stage = "upsert" /\ t.isbn13 # e.isbn13
                                       /\ t.author \in Range(names)
                                       /\ \A a \in authors : a.author_name # t.author,
                        failed |-> FALSE, lost |-> {}, updated |-> FALSE]]
           ELSE UNCHANGED <<books, tasks, ins>>
        /\ UNCHANGED <<authors, links, cascade, accounts, scan>>

\* Mutant: a plain INSERT, without ON CONFLICT.
UpsertAuthorPlainInsert(rows, name) ==
    rows \cup {[author_id |-> Max({0} \cup {a.author_id : a \in rows}) + 1,
               author_name |-> name]}

\* INSERT INTO Author (author_name) VALUES ($1)
\* ON CONFLICT (author_name) DO UPDATE SET author_name = EXCLUDED.author_name
\* RETURNING author_id
UpsertAuthor(rows, name) ==
    IF \E a \in rows : a.author_name = name
    THEN rows
    ELSE rows \cup {[author_id |-> Max({0} \cup {a.author_id : a \in rows}) + 1,
                     author_name |-> name]}

AuthorIdOf(rows, name) ==
    (CHOOSE a \in rows : a.author_name = name).author_id

TaskStep == Response("task", [none |-> TRUE], Unsent, 1, <<>>)

\* History: a deferred query for author `author` of the insert of isbn13
\* failed; its catch only logs it.
MarkFailed(isbn13, author) ==
    IF isbn13 \in DOMAIN ins /\ ins[isbn13] # NoInsert
    THEN [ins EXCEPT ![isbn13].failed = TRUE, ![isbn13].lost = @ \cup {author}]
    ELSE ins

AuthorUpsertDoneAborting(t, dbOk) ==
    /\ t \in tasks /\ t.stage = "upsert"
    /\ last' = TaskStep
    /\ IF dbOk
       THEN /\ authors' = UpsertAuthor(authors, t.author)
            /\ tasks' = (tasks \ {t}) \cup
                   {[t EXCEPT !.stage = "link",
                              !.author_id = AuthorIdOf(authors', t.author)]}
            /\ ins' = ins
       ELSE /\ authors' = authors
            /\ tasks' = {u \in tasks : u.isbn13 # t.isbn13}
            /\ ins' = MarkFailed(t.isbn13, t.author)
    /\ UNCHANGED <<books, links, cascade, accounts, scan>>

\* The author upsert of a task completes: its then issues the link INSERT;
\* its catch logs the error.
AuthorUpsertDone(t, dbOk) ==
    /\ t \in tasks /\ t.stage = "upsert"
    /\ last' = TaskStep
    /\ IF dbOk
       THEN /\ authors' = UpsertAuthor(authors, t.author)
            /\ tasks' = (tasks \ {t}) \cup
                   {[t EXCEPT !.stage = "link",
                              !.author_id = AuthorIdOf(authors', t.author)]}
            /\ ins' = ins
       ELSE /\ authors' = authors
            /\ tasks' = tasks \ {t}
            /\ ins' = MarkFailed(t.isbn13, t.author)
    /\ UNCHANGED <<books, links, cascade, accounts, scan>>

InsertLinkNothing(rows, isbn13, author_id) == rows

\* INSERT INTO books_authors (isbn13, author_id) VALUES ($1, $2)
\* ON CONFLICT (isbn13, author_id) DO NOTHING
InsertLink(rows, isbn13, author_id) ==
    IF \E l \in rows : l.isbn13 = isbn13 /\ l.author_id = author_id
    THEN rows
    ELSE rows \cup {[isbn13 |-> isbn13, author_id |-> author_id]}

InsertLinkRaisesOnConflict(rows, isbn13, author_id) ==
    \E l \in rows : l.isbn13 = isbn13 /\ l.author_id = author_id

\* Whether that INSERT raises a unique violation over a stored pair: with
\* ON CONFLICT (isbn13, author_id) DO NOTHING it never does.
InsertLinkRaises(rows, isbn13, author_id) == FALSE

\* With the foreign key, a link to a Book that is gone is refused.
LinkAccepted(isbn13) == cascade => \E b \in books : b.isbn13 = isbn13

\* The link INSERT of a task completes; its catch logs the error.
LinkInsertDone(t, dbOk) ==
    /\ t \in tasks /\ t.stage = "link"
    /\ last' = TaskStep
    /\ tasks' = tasks \ {t}
    /\ IF /\ dbOk /\ LinkAccepted(t.isbn13)
          /\ ~InsertLinkRaises(links, t.isbn13, t.author_id)
       THEN links' = InsertLink(links, t.isbn13, t.author_id) /\ ins' = ins
       ELSE links' = links /\ ins' = MarkFailed(t.isbn13, t.author)
    /\ UNCHANGED <<books, authors, cascade, accounts, scan>>

----------------------------------------------------------------------------
(* Helpers shared by the routes.                                           *)

\* A send inside the then of a query: when it throws, the catch of the same
\* chain runs and sends the server error, which throws as well.
SendInThen(r, status, message) ==
    LET r1 == Send(r, status, message)
    IN  IF r.sends > 0 THEN Send(r1, 500, ServerError) ELSE r1

\* The results a response carries: none when its send threw.
Carried(r, results) == IF r.sends = 0 THEN results ELSE <<>>

\* The validator of the routes with :isbn.  It calls next() on every path.
IsbnValidator(isbn) ==
    IF isbn = Undefined
    THEN Send(Unsent, 400, "No query parameter in url - please refer to documentation")
    ELSE IF ~isNumberProvided(isbn)
    THEN Send(Unsent, 400, "Query parameter not of required type - please refer to documentation")
    ELSE IF isbn < 0 \/ isbn > PowTen13
    THEN Send(Unsent, 400, "ISBN not in range - please refer to documentation")
    ELSE Unsent

\* The validator of the routes with :name.
NameValidator(name) ==
    IF ~isStringProvided(name)
    THEN [r |-> Send(Unsent, 400, "No query parameter in url"), next |-> FALSE]
    ELSE [r |-> Unsent, next |-> TRUE]

\* All orders in which the rows of a set can be returned.
RECURSIVE Orders(_)
Orders(S) ==
    IF S = {} THEN {<<>>}
    ELSE UNION {{<<x>> \o o : o \in Orders(S \ {x})} : x \in S}

toBooks(rows) == [i \in 1..Len(rows) |-> toBook(rows[i])]

\* Storage refuses a parameter that is no number.
BadParam(v) == v = NotANumber

\* error.detail of a rejected query: the detail of a unique violation, of
\* another failure, or none.
DuplicateDetail == "Key (isbn13)=(1) already exists."
ErrorDetails == {DuplicateDetail, "Failing row contains (null).", NoString}

\* (error.detail as string).endsWith('already exists.')
endsWithAlreadyExists(detail) == detail = DuplicateDetail

\* The details a failing query can carry: a parameter that is no number is
\* a syntax error, which has no detail.
FailureDetails(dbOk) == IF dbOk THEN {NoString} ELSE ErrorDetails

\* The catch of the two rating routes.
NameExistsCatch(r, detail) ==
    IF detail # NoString /\ endsWithAlreadyExists(detail)
    THEN Send(r, 400, "Name exists")
    ELSE Send(r, 500, ServerError)

----------------------------------------------------------------------------
(* GET /books/isbns/:isbn                                                  *)

SelectByIsbn(isbn) == {ViewRow(b) : b \in Joined({b \in books : b.isbn13 = isbn})}

\* The then-callback of the query over the rows of its result.
GetByIsbnThen(r, rows) ==
    IF Cardinality(rows) = 1
    THEN [r |-> SendInThen(r, 200, "result"),
          results |-> Carried(r, <<toBook(CHOOSE x \in rows : TRUE)>>)]
    ELSE [r |-> SendInThen(r, 404, "No book with given ISBN"), results |-> <<>>]

GetByIsbnOutcome(isbn, dbOk) ==
    LET r == IsbnValidator(isbn)
    IN  IF BadParam(isbn) \/ ~dbOk
        THEN [r |-> Send(r, 500, ServerError), results |-> <<>>]
        ELSE GetByIsbnThen(r, SelectByIsbn(isbn))

GetBookByISBN(isbn, dbOk) ==
    LET o == GetByIsbnOutcome(isbn, dbOk)
    IN  /\ last' = Response("getIsbn", [isbn |-> isbn, dbOk |-> dbOk], o.r, 1, o.results)
        /\ UNCHANGED <<books, authors, links, tasks, cascade, accounts, scan, ins, nreq, pages>>

\* The same handler over a result the storage client hands to the callback:
\* the rows of the stored Book and rows beyond it, as a table without the
\* key on isbn13 yields them (one group per distinct row).
GetBookByISBNOver(isbn, beyond) ==
    LET rows == SelectByIsbn(isbn) \cup beyond
        o == GetByIsbnThen(IsbnValidator(isbn), rows)
    IN  /\ last' = Response("getIsbnOver", [isbn |-> isbn, rowCount |-> Cardinality(rows)],
                            o.r, 1, o.results)
        /\ UNCHANGED <<books, authors, links, tasks, cascade, accounts, scan, ins, nreq, pages>>

----------------------------------------------------------------------------
(* DELETE /books/isbns/:isbn and DELETE /books/title/:name                 *)

ScalarAuthorsNull(cte) == NullAuthors

\* (SELECT authors FROM delete_book): the scalar subquery of RETURNING.  It
\* is NULL over no row and an error over more than one row.
ScalarAuthors(cte) ==
    IF cte = {} THEN NullAuthors ELSE (CHOOSE x \in cte : TRUE).authors

\* DELETE FROM Books ... with the foreign key's ON DELETE CASCADE.
LinksAfterDelete(gone) ==
    IF cascade THEN {l \in links : \A b \in gone : b.isbn13 # l.isbn13} ELSE links

AuthorsAfterDeleteDropsOrphans(gone) ==
    {a \in authors : \E l \in LinksAfterDelete(gone) : l.author_id = a.author_id}

\* DELETE FROM Books: the statement names no other table and no foreign key
\* refers from Author to Books, so the Author rows stay.
AuthorsAfterDelete(gone) == authors

Forget(gone) ==
    [i \in DOMAIN ins |-> IF \E b \in gone : b.isbn13 = i THEN NoInsert ELSE ins[i]]

DeleteReturningUnkeyed(matched) ==
    [error |-> FALSE, gone |-> books,
     rows |-> {WithAuthors(b, NullAuthors) : b \in books}]

\* WITH delete_book AS (SELECT ... GROUP BY ...) DELETE FROM Books WHERE ...
\* RETURNING *, (SELECT authors FROM delete_book)
\* matched: the rows of the DELETE's WHERE.  The result is an error when the
\* subquery yields more than one row for a returned row.
DeleteReturning(matched) ==
    LET cte == {ViewRow(b) : b \in Joined(matched)}
    IN  IF matched # {} /\ Cardinality(cte) > 1
        THEN [error |-> TRUE, gone |-> {}, rows |-> {}]
        ELSE [error |-> FALSE, gone |-> matched,
              rows |-> {WithAuthors(b, ScalarAuthors(cte)) : b \in matched}]

DeleteBookByISBN(isbn, dbOk) ==
    LET r == IsbnValidator(isbn)
        d == DeleteReturning({b \in books : b.isbn13 = isbn})
        failed == BadParam(isbn) \/ ~dbOk \/ d.error
    IN  /\ IF failed
           THEN /\ last' = Response("deleteIsbn", [isbn |-> isbn, dbOk |-> dbOk],
                                    Send(r, 500, ServerError), 1, <<>>)
                /\ UNCHANGED <<books, authors, links, ins>>
           ELSE /\ books' = books \ d.gone
                /\ authors' = AuthorsAfterDelete(d.gone)
                /\ links' = LinksAfterDelete(d.gone)
                /\ ins' = Forget(d.gone)
                /\ IF Cardinality(d.rows) = 1
                   THEN last' = Response("deleteIsbn", [isbn |-> isbn, dbOk |-> dbOk],
                                    SendInThen(r, 200, "result"), 1,
                                    Carried(r, <<toBook(CHOOSE x \in d.rows : TRUE)>>))
                   ELSE last' = Response("deleteIsbn", [isbn |-> isbn, dbOk |-> dbOk],
                                    SendInThen(r, 404, "No book with given ISBN"), 1, <<>>)
        /\ UNCHANGED <<tasks, cascade, accounts, scan>>

DeleteBooksByTitle(name, dbOk) ==
    LET v == NameValidator(name)
        d == DeleteReturning({b \in books : b.title = name})
        req == [name |-> name, dbOk |-> dbOk]
    IN  /\ IF ~v.next
           THEN /\ last' = Response("deleteTitle", req, v.r, 0, <<>>)
                /\ UNCHANGED <<books, authors, links, ins>>
           ELSE IF ~dbOk \/ d.error
           THEN /\ last' = Response("deleteTitle", req, Send(v.r, 500, ServerError), 1, <<>>)
                /\ UNCHANGED <<books, authors, links, ins>>
           ELSE /\ books' = books \ d.gone
                /\ authors' = AuthorsAfterDelete(d.gone)
                /\ links' = LinksAfterDelete(d.gone)
                /\ ins' = Forget(d.gone)
                /\ IF Cardinality(d.rows) >= 1
                   THEN \E rows \in Orders(d.rows) :
                            last' = Response("deleteTitle", req,
                                        SendInThen(v.r, 200, "results"), 1, toBooks(rows))
                   ELSE last' = Response("deleteTitle", req,
                                    SendInThen(v.r, 404, "title not found"), 1, <<>>)
        /\ UNCHANGED <<tasks, cascade, accounts, scan>>

----------------------------------------------------------------------------
(* DELETE /books/author/:name                                              *)

AuthorDeleteTargetsAnyAuthor(name) == Joined(books)

\* WHERE b.isbn13 IN (SELECT b2.isbn13 ... WHERE a2.Author_Name = $1): the
\* Books with a joined Author of that name.
AuthorDeleteTargets(name) ==
    {b \in books : \E a \in JoinedAuthors(b.isbn13) : a.author_name = name}

\* string_agg(TRIM(a.Author_Name), ', ') without ORDER BY: the names of the
\* joined Author rows in any order.
UnorderedAgg(S) ==
    {[i \in 1..Len(o) |-> o[i].author_name] : o \in Orders(S)}

\* One aggregate per Book of the CTE, GROUP BY b.isbn13.
DeleteBookAggs(targets) ==
    {f \in [targets -> UNION {UnorderedAgg(JoinedAuthors(b.isbn13)) : b \in targets}] :
        \A b \in targets : f[b] \in UnorderedAgg(JoinedAuthors(b.isbn13))}

DeleteBooksByAuthor(name, dbOk) ==
    LET v == NameValidator(name)
        req == [name |-> name, dbOk |-> dbOk]
        targets == AuthorDeleteTargets(name)
    IN  /\ IF ~v.next
           THEN /\ last' = Response("deleteAuthor", req, v.r, 0, <<>>)
                /\ UNCHANGED <<books, authors, links, ins>>
           ELSE IF ~dbOk
           THEN /\ last' = Response("deleteAuthor", req, Send(v.r, 500, ServerError), 1, <<>>)
                /\ UNCHANGED <<books, authors, links, ins>>
           ELSE /\ books' = books \ targets
                /\ authors' = AuthorsAfterDelete(targets)
                /\ links' = LinksAfterDelete(targets)
                /\ ins' = Forget(targets)
                /\ IF Cardinality(targets) >= 1
                   THEN \E f \in DeleteBookAggs(targets) :
                        \E rows \in Orders({WithAuthors(b, f[b]) : b \in targets}) :
                            last' = Response("deleteAuthor", req,
                                        SendInThen(v.r, 200, "results"), 1, toBooks(rows))
                   ELSE last' = Response("deleteAuthor", req,
                                    SendInThen(v.r, 404, "Authors not found"), 1, <<>>)
        /\ UNCHANGED <<tasks, cascade, accounts, scan>>

----------------------------------------------------------------------------
(* GET /books/title/:name and GET /books/author/:name                      *)

SelectByTitleUnfiltered(name) == {ViewRow(b) : b \in Joined(books)}

\* WHERE b.title = $1 over the joined and grouped rows.
SelectByTitle(name) == {ViewRow(b) : b \in Joined({b \in books : b.title = name})}

\* WHERE a.Author_name = $1 filters the joined rows before they are grouped,
\* so the aggregate runs over the rows of that author alone.
SelectByAuthor(name) ==
    {WithAuthors(b, string_agg({a \in JoinedAuthors(b.isbn13) : a.author_name = name})) :
        b \in {x \in books : \E a \in JoinedAuthors(x.isbn13) : a.author_name = name}}

\* The handler shared by the two list reads: 200 with the rows, or 404.
ListRead(op, name, dbOk, rowset, notFound) ==
    LET v == NameValidator(name)
        req == [name |-> name, dbOk |-> dbOk]
    IN  /\ IF ~v.next
           THEN last' = Response(op, req, v.r, 0, <<>>)
           ELSE IF ~dbOk
           THEN last' = Response(op, req, Send(v.r, 500, ServerError), 1, <<>>)
           ELSE IF Cardinality(rowset) >= 1
           THEN \E rows \in Orders(rowset) :
                    last' = Response(op, req, SendInThen(v.r, 200, "results"), 1,
                                     toBooks(rows))
           ELSE last' = Response(op, req, SendInThen(v.r, 404, notFound), 1, <<>>)
        /\ UNCHANGED <<books, authors, links, tasks, cascade, accounts, scan, ins, nreq, pages>>

GetBooksByTitle(name, dbOk) ==
    ListRead("getTitle", name, dbOk, SelectByTitle(name), "No book with given title")

GetBooksByAuthor(name, dbOk) ==
    ListRead("getAuthor", name, dbOk, SelectByAuthor(name), "Author not found")

----------------------------------------------------------------------------
(* POST /books/rating                                                      *)

\* The validator: the status and message it sends, or next.
RatingRangeValidator(min, max, order) ==
    IF isNumberProvided(min) /\ isNumberProvided(min) /\ isStringProvided(order)
    THEN IF JsLe(min, 0)
         THEN [r |-> Send(Unsent, 400, "Missing or invalid lower-bound parameter - please refer to documentation"),
               next |-> FALSE]
         ELSE IF JsLt(max, min)
         THEN [r |-> Send(Unsent, 400, "The lower bound for the interal is greater than the upper bound - please refer to documentation"),
               next |-> FALSE]
         ELSE IF order # "min-first" /\ order # "max-first"
         THEN [r |-> Send(Unsent, 400, "Ordering field must be one of set options - please refer to documentation"),
               next |-> FALSE]
         ELSE [r |-> Unsent, next |-> TRUE]
    ELSE IF ~isNumberProvided(min)
    THEN [r |-> Send(Unsent, 400, "Missing or invalid lower-bound parameter - please refer to documentation"),
          next |-> FALSE]
    ELSE IF ~isNumberProvided(max)
    THEN [r |-> Send(Unsent, 400, "Missing or invalid upper-bound parameter - please refer to documentation"),
          next |-> FALSE]
    ELSE [r |-> Send(Unsent, 400, "Missing ordering field in http body - please refer to documentation"),
          next |-> FALSE]

\* WHERE rating_avg >= $1 AND rating_avg <= $2: a comparison with NULL
\* selects nothing.
SelectByRating(min, max) ==
    {ViewRow(b) : b \in Joined({b \in books :
        JsGe(b.rating_avg, min) /\ JsLe(b.rating_avg, max)})}

OrderedByAscending(rowset, order) ==
    {o \in Orders(rowset) : \A i, j \in 1..Len(o) : i < j =>
        o[i].rating_avg <= o[j].rating_avg}

\* ORDER BY rating_avg ASC | DESC: the orders of the rows that respect it.
OrderedBy(rowset, order) ==
    {o \in Orders(rowset) : \A i, j \in 1..Len(o) : i < j =>
        IF order = "min-first"
        THEN o[i].rating_avg <= o[j].rating_avg
        ELSE o[i].rating_avg >= o[j].rating_avg}

GetBooksByRating(min, max, order, dbOk) ==
    LET v == RatingRangeValidator(min, max, order)
        req == [min |-> min, max |-> max, order |-> order, dbOk |-> dbOk]
    IN  /\ IF ~v.next
           THEN last' = Response("getRating", req, v.r, 0, <<>>)
           ELSE IF BadParam(min) \/ BadParam(max) \/ ~dbOk
           THEN \E d \in FailureDetails(dbOk) :
                    last' = Response("getRating", req, NameExistsCatch(v.r, d), 1, <<>>)
                                @@ [detail |-> d]
           ELSE \E rows \in OrderedBy(SelectByRating(min, max), order) :
                    last' = Response("getRating", req, SendInThen(v.r, 200, "results"), 1,
                                     toBooks(rows))
        /\ UNCHANGED <<books, authors, links, tasks, cascade, accounts, scan, ins, nreq, pages>>

----------------------------------------------------------------------------
(* PUT /books/rating/:isbn                                                 *)

\* toCheck: the seven rating fields in the validator's order.
ToCheck(ratings) ==
    <<ratings.average, ratings.count, ratings.rating1, ratings.rating2,
      ratings.rating3, ratings.rating4, ratings.rating5>>

MissingMsg == "Missing fields within the body - please refer to documentation"
CountMsg == "Rating count must be positive - please refer to documenation"
AverageMsg == "Rating average is not in range of 1 to 5 inclusive - please refer to documentation"

RatingSendsMissingOnly(toCheck) ==
    [i \in 1..Len(SelectSeq(toCheck, LAMBDA x : ~isNumberProvided(x))) |-> MissingMsg]

\* The sends the ratings validator makes before its last test, in order: one
\* per field that is no number, then one per count below 0.
RatingSends(toCheck) ==
    [i \in 1..Len(SelectSeq(toCheck, LAMBDA x : ~isNumberProvided(x))) |-> MissingMsg]
    \o [i \in 1..Len(SelectSeq(SubSeq(toCheck, 2, 7), LAMBDA x : JsLt(x, 0))) |-> CountMsg]

\* Sends in sequence: the first send on a sent response throws and ends the
\* middleware.
RECURSIVE SendEach(_, _, _)
SendEach(msgs, i, r) ==
    IF i > Len(msgs) THEN [r |-> r, threw |-> FALSE]
    ELSE IF r.sends > 0 THEN [r |-> Send(r, 400, msgs[i]), threw |-> TRUE]
    ELSE SendEach(msgs, i + 1, Send(r, 400, msgs[i]))

\* The ratings validator, entered with the response r of the ISBN validator.
RatingsValidator(ratings, r) ==
    IF ratings = NullObject
    THEN [r |-> ExpressError(r), next |-> FALSE]
    ELSE LET s == SendEach(RatingSends(ToCheck(ratings)), 1, r)
             rating_avg == ratings.average
         IN  IF s.threw THEN [r |-> s.r, next |-> FALSE]
             ELSE IF JsGt(rating_avg, 5) \/ JsLt(rating_avg, 1)
             THEN [r |-> Send(s.r, 400, AverageMsg), next |-> FALSE]
             ELSE [r |-> s.r, next |-> TRUE]

UpdateRowKeepsCount(b, ratings) ==
    Row(b.isbn13, b.publication_year, b.original_title, b.title,
        [ratings EXCEPT !.count = b.rating_count], b.image_url, b.image_small_url)

UpdateRowSetsTitle(b, ratings) ==
    Row(b.isbn13, b.publication_year, b.original_title, b.original_title, ratings,
        b.image_url, b.image_small_url)

\* UPDATE Books SET rating_avg = $1, ..., rating_5_star = $7 WHERE isbn13 = $8
UpdateRow(b, ratings) ==
    Row(b.isbn13, b.publication_year, b.original_title, b.title, ratings,
        b.image_url, b.image_small_url)

MarkUpdated(changed) ==
    [i \in DOMAIN ins |->
        IF ins[i] # NoInsert /\ \E b \in changed : b.isbn13 = i
        THEN [ins[i] EXCEPT !.updated = TRUE] ELSE ins[i]]

UpdateBookRating(isbn, ratings, dbOk) ==
    LET v == RatingsValidator(ratings, IsbnValidator(isbn))
        req == [isbn |-> isbn, ratings |-> ratings, dbOk |-> dbOk]
        matched == {b \in books : b.isbn13 = isbn}
        rows == {UpdateRow(b, ratings) : b \in matched}
    IN  /\ IF ~v.next
           THEN /\ last' = Response("putRating", req, v.r, 0, <<>>)
                /\ UNCHANGED <<books, ins>>
           ELSE IF BadParam(isbn) \/ ~dbOk
           THEN /\ \E d \in FailureDetails(dbOk) :
                       last' = Response("putRating", req, NameExistsCatch(v.r, d), 1, <<>>)
                                   @@ [detail |-> d]
                /\ UNCHANGED <<books, ins>>
           ELSE /\ books' = (books \ matched) \cup rows
                /\ ins' = MarkUpdated(matched)
                /\ IF Cardinality(rows) = 1
                   THEN last' = Response("putRating", req, SendInThen(v.r, 201, "result"), 1,
                                    Carried(v.r, <<toBook(WithAuthors(CHOOSE x \in rows : TRUE,
                                                                      NullAuthors))>>))
                   ELSE last' = Response("putRating", req,
                                    SendInThen(v.r, 404, "No book with given ISBN"), 1, <<>>)
        /\ UNCHANGED <<authors, links, tasks, cascade, accounts, scan>>

----------------------------------------------------------------------------
(* POST /books/pagination/offset                                           *)

DefaultLimit == 16

ResolveLimitAcceptsZero(limit) ==
    IF isNumberProvided(limit) /\ limit >= 0 THEN limit ELSE DefaultLimit

\* isNumberProvided(request.body.limit) && +request.body.limit > 0
\*     ? +request.body.limit : 16
ResolveLimit(limit) ==
    IF isNumberProvided(limit) /\ limit > 0 THEN limit ELSE DefaultLimit

\* isNumberProvided(request.body.offset) && +request.body.offset >= 0
\*     ? +request.body.offset : 0
ResolveOffset(offset) ==
    IF isNumberProvided(offset) /\ offset >= 0 THEN offset ELSE 0

Min(a, b) == IF a <= b THEN a ELSE b

LimitOffsetAll(o, limit, offset) == o

\* LIMIT $1 OFFSET $2 over the rows in the order o.
LimitOffset(o, limit, offset) == SubSeq(o, offset + 1, Min(offset + limit, Len(o)))

NoPagination == [none |-> TRUE]

\* What `last` records of a paginated scan: the response, its pagination
\* block, and the number of Books stored when the first query ran.
PageResponse(req, r, queries, results, pagination, scanned) ==
    Response("page", req, r, queries, results)
        @@ [pagination |-> pagination, scanned |-> scanned]

\* An await in the async handler rejects: the handler has no try/catch, so
\* the rejection leaves the handler.  The router either drops it (the request
\* is never answered) or passes it to the default error handler.
Rejected == {Unsent, ExpressError(Unsent)}

\* The first query: the page of the joined view, in any order of its rows
\* (the statement has no ORDER BY).
PageScan(limit, offset, scanOk) ==
    LET req == [limit |-> limit, offset |-> offset, scanOk |-> scanOk, countOk |-> TRUE]
        rowset == {ViewRow(b) : b \in Joined(books)}
    IN  /\ Cardinality(pages) < MaxPages
        /\ nreq < MaxRequests /\ nreq' = nreq + 1
        /\ IF scanOk
           THEN \E o \in Orders(rowset) :
                   /\ pages' = pages \cup
                          {[req |-> req, limit |-> ResolveLimit(limit),
                            offset |-> ResolveOffset(offset),
                            rows |-> LimitOffset(o, ResolveLimit(limit), ResolveOffset(offset)),
                            scanned |-> Cardinality(books)]}
                   /\ last' = Response("pageScan", req, Unsent, 1, <<>>)
           ELSE /\ pages' = pages
                /\ \E r \in Rejected :
                       last' = PageResponse(req, r, 1, <<>>, NoPagination, Cardinality(books))
        /\ UNCHANGED <<books, authors, links, tasks, cascade, accounts, ins>>

\* The second query, SELECT count(*) FROM Books, and the response.
PageCount(p, countOk) ==
    /\ p \in pages
    /\ pages' = pages \ {p}
    /\ IF countOk
       THEN last' = PageResponse(p.req, Send(Unsent, 200, "results"), 2, toBooks(p.rows),
                        [totalRecords |-> Cardinality(books), limit |-> p.limit,
                         offset |-> p.offset, nextPage |-> p.limit + p.offset],
                        p.scanned)
       ELSE \E r \in Rejected :
                last' = PageResponse([p.req EXCEPT !.countOk = FALSE], r, 2, <<>>,
                                     NoPagination, p.scanned)
    /\ UNCHANGED <<books, authors, links, tasks, cascade, accounts, ins, nreq>>

\* A client that scans the catalog: it asks for the page at offset 0 and
\* then for the page at the nextPage of each response, until a page comes
\* back empty.  got lists the ISBNs it received, total is the totalRecords
\* of the last response.
NoScan ==
    [limit |-> 0, next |-> 0, got |-> <<>>, total |-> 0, waiting |-> FALSE, done |-> FALSE]

ScanRequest ==
    /\ scan.limit > 0 /\ ~scan.waiting /\ ~scan.done
    /\ PageScan(scan.limit, scan.next, TRUE)
    /\ scan' = [scan EXCEPT !.waiting = TRUE]

ScanResponse ==
    /\ scan.waiting
    /\ \E p \in pages : PageCount(p, TRUE)
    /\ scan' = [scan EXCEPT
           !.waiting = FALSE,
           !.got = @ \o [k \in 1..Len(last'.results) |-> last'.results[k].isbn13],
           !.next = last'.pagination.nextPage,
           !.total = last'.pagination.totalRecords,
           !.done = (last'.results = <<>>)]

----------------------------------------------------------------------------
(* POST /login (routes/auth/login.ts)                                      *)

\* credentialingFunctions.generateHash (core/utilities): the salted hash of
\* a password, modelled as the pair it is computed from.
generateHash(password, salt) == <<password, salt>>

\* jwt.sign(payload, key.secret, { expiresIn }): the token of a payload.
sign(payload) == [payload |-> payload]

\* SELECT ... FROM Account_Credential INNER JOIN Account ON ...
\* WHERE Account.username = $1
SelectCredentials(username) == {a \in accounts : a.username = username}

UserNotFoundDistinct == Send(Unsent, 404, "User not found")

\* The answer to a result without rows.
UserNotFound == Send(Unsent, 400, "Invalid Credentials")

\* The answer to a salted hash that differs from the stored one.
CredentialsMismatch == Send(Unsent, 400, "Invalid Credentials")

\* The comparison of the hashes over the row of the account.
LoginAnswer(password, row) ==
    IF row.salted_hash = generateHash(password, row.salt)
    THEN [r |-> Send(Unsent, 200, "accessToken"),
          results |-> <<[accessToken |-> sign([name |-> row.firstname, id |-> row.account_id]),
                         user |-> [name |-> row.firstname, email |-> row.email,
                                   role |-> 1, id |-> row.account_id]]>>]
    ELSE [r |-> CredentialsMismatch, results |-> <<>>]

LoginThenFirstRow(password, rows) ==
    IF Cardinality(rows) = 0
    THEN [r |-> UserNotFound, results |-> <<>>]
    ELSE LoginAnswer(password, CHOOSE a \in rows : TRUE)

\* The then-callback of the query over the rows of its result.
LoginThen(password, rows) ==
    IF Cardinality(rows) = 0
    THEN [r |-> UserNotFound, results |-> <<>>]
    ELSE IF Cardinality(rows) > 1
    THEN [r |-> Send(Unsent, 500, ServerError), results |-> <<>>]
    ELSE LoginAnswer(password, CHOOSE a \in rows : TRUE)

Login(username, password, dbOk) ==
    LET req == [username |-> username, password |-> password, dbOk |-> dbOk]
        o == LoginThen(password, SelectCredentials(username))
    IN  /\ IF ~isStringProvided(username)
           THEN last' = Response("login", req,
                    Send(Unsent, 400, "Missing username - please refer to documentation"),
                    0, <<>>)
           ELSE IF ~isStringProvided(password)
           THEN last' = Response("login", req,
                    Send(Unsent, 400, "Missing password - please refer to documentation"),
                    0, <<>>)
           ELSE IF ~dbOk
           THEN last' = Response("login", req, Send(Unsent, 500, ServerError), 1, <<>>)
           ELSE last' = Response("login", req, o.r, 1, o.results)
        /\ UNCHANGED <<books, authors, links, tasks, cascade, accounts, scan, ins, nreq, pages>>

----------------------------------------------------------------------------
(* Inputs.                                                                 *)

Titles == {"T1", "T2"}
Icons == [large |-> "L", small |-> "S"]

Ratings(average, count, rating3) ==
    [average |-> average, count |-> count, rating1 |-> 1, rating2 |-> 2,
     rating3 |-> rating3, rating4 |-> 4, rating5 |-> 5]

Entry(isbn13, auths, title, original_title, publication, ratings, icons) ==
    [isbn13 |-> isbn13, authors |-> auths, publication |-> publication,
     original_title |-> original_title, title |-> title, ratings |-> ratings,
     icons |-> icons]

\* Entries that pass every check of the validator.
Valid(isbns, authorTexts, titles, averages) ==
    {Entry(i, a, t, "O", 1999, Ratings(avg, 15, 3), Icons) :
        i \in isbns, a \in authorTexts, t \in titles, avg \in averages}

ValidEntries ==
    Valid({1, 2}, {<<"A">>, <<"B", "A">>}, {"T1"}, {4}) \cup Valid({1}, {<<"A">>}, {"T2"}, {4})

\* Entries that fail one check, and entries that fail two.
InvalidEntries ==
    { Entry(1, <<"A">>, "T1", "O", -1, Ratings(4, 15, 3), Icons),
      Entry(1, <<"A">>, "T1", "O", 1999, Ratings(0, 15, 3), Icons),
      Entry(1, <<"A">>, "T1", "O", 1999, Ratings(4, -1, 3), Icons),
      Entry(1, <<"A">>, "T1", "O", 1999, Ratings(4, 15, Undefined), Icons),
      Entry(1, <<"A">>, "T1", "O", 1999, NullObject, Icons),
      Entry(1, <<"A">>, "T1", "O", 1999, Ratings(4, 15, 3), [large |-> NoString, small |-> "S"]),
      Entry(1, <<"A">>, "T1", "O", 1999, Ratings(4, 15, 3), [large |-> "L", small |-> NoString]),
      Entry(1, <<"A">>, "T1", "O", 1999, Ratings(4, 15, 3), NullObject),
      Entry(1, <<"A">>, "T1", NoString, 1999, Ratings(4, 15, 3), Icons),
      Entry(1, <<"A">>, NoString, "O", 1999, Ratings(4, 15, 3), Icons),
      Entry(1, NoText, "T1", "O", 1999, Ratings(4, 15, 3), Icons),
      Entry(1, <<"A">>, "T1", "O", Undefined, Ratings(4, 15, 3), Icons),
      Entry(-1, <<"A">>, "T1", "O", 1999, Ratings(4, 15, 3), Icons),
      Entry(Undefined, <<"A">>, "T1", "O", 1999, Ratings(4, 15, 3), Icons),
      Entry(1, <<"A">>, NoString, "O", -1, Ratings(4, 15, 3), Icons) }

\* An entry whose ISBN is above 10^13: the insert validator has no upper bound.
WideEntry == Entry(PowTen13 + 1, <<"A">>, "T1", "O", 1999, Ratings(4, 15, 3), Icons)

InsertIsbns == {1, 2, -1, PowTen13 + 1}

IsbnParams == {1, 2, -1, PowTen13 + 1, NotANumber}

RatingBodies ==
    { Ratings(3, 7, 0), Ratings(0, 7, 0), Ratings(6, 7, 0), Ratings(3, -1, 0),
      Ratings(3, 7, -1), Ratings(3, -1, -1), Ratings(0, -1, 0),
      Ratings(Undefined, 7, 0), Ratings(3, Undefined, 0),
      Ratings(3, Undefined, Undefined), NullObject }


----------------------------------------------------------------------------
(* The system.                                                             *)

Init ==
    /\ books = {}
    /\ authors = {}
    /\ links = {}
    /\ tasks = {}
    /\ cascade \in BOOLEAN
    /\ accounts = {}
    /\ scan = NoScan
    /\ ins = [i \in InsertIsbns |-> NoInsert]
    /\ nreq = 0
    /\ pages = {}
    /\ last = Response("none", [none |-> TRUE], Unsent, 0, <<>>)

\* A writing request arrives, one of at most max.
Write(A, max) == nreq < max /\ nreq' = nreq + 1 /\ pages' = pages /\ A

\* A deferred query of an earlier request completes.
Deferred(A) == nreq' = nreq /\ pages' = pages /\ A

\* Concurrent inserts of two ISBNs with their deferred queries, by-ISBN reads
\* and deletes; no storage failure.
Next ==
    \/ \E e \in ValidEntries : Write(PostBook(e, TRUE), MaxRequests)
    \/ \E t \in tasks : Deferred(AuthorUpsertDone(t, TRUE))
    \/ \E t \in tasks : Deferred(LinkInsertDone(t, TRUE))
    \/ \E i \in {1, 2} : GetBookByISBN(i, TRUE)
    \/ \E i \in {1, 2} : Write(DeleteBookByISBN(i, TRUE), MaxRequests)

Spec == Init /\ [][Next]_vars

\* The same routes where any storage query may fail.
FaultEntries == Valid({1}, {<<"A">>, <<"B", "A">>}, {"T1"}, {4})

NextFaults ==
    \/ \E e \in FaultEntries, dbOk \in BOOLEAN : Write(PostBook(e, dbOk), MaxRequests)
    \/ \E t \in tasks, dbOk \in BOOLEAN : Deferred(AuthorUpsertDone(t, dbOk))
    \/ \E t \in tasks, dbOk \in BOOLEAN : Deferred(LinkInsertDone(t, dbOk))
    \/ \E dbOk \in BOOLEAN : GetBookByISBN(1, dbOk)
    \/ \E dbOk \in BOOLEAN : Write(DeleteBookByISBN(1, dbOk), MaxRequests)

SpecFaults == Init /\ [][NextFaults]_vars


\* Inserts of entries that fail the validator's checks.
ShapeEntries == InvalidEntries \cup Valid({1}, {<<"A">>}, {"T2"}, {4})

NextShape ==
    \/ \E e \in ShapeEntries : Write(PostBook(e, TRUE), MaxRequests)
    \/ \E t \in tasks : Deferred(AuthorUpsertDone(t, TRUE))
    \/ \E t \in tasks : Deferred(LinkInsertDone(t, TRUE))
    \/ \E i \in {1, -1} : GetBookByISBN(i, TRUE)

SpecShape == Init /\ [][NextShape]_vars

\* Rating updates over inserted Books.
RatingEntries == Valid({1, 2}, {<<"A">>}, {"T1"}, {4})

NextRating ==
    \/ \E e \in RatingEntries : Write(PostBook(e, TRUE), MaxRequests)
    \/ \E t \in tasks : Deferred(AuthorUpsertDone(t, TRUE))
    \/ \E t \in tasks : Deferred(LinkInsertDone(t, TRUE))
    \/ \E i \in {1, 2} : GetBookByISBN(i, TRUE)
    \/ \E i \in {1, -1, NotANumber}, r \in RatingBodies :
           Write(UpdateBookRating(i, r, TRUE), MaxRequests)

SpecRating == Init /\ [][NextRating]_vars

\* Deletes by ISBN and by title over inserted Books.
DeleteEntries ==
    Valid({1}, {<<"A">>}, {"T1"}, {4}) \cup Valid({2}, {<<"B", "A">>}, {"T1"}, {4})
    \cup Valid({2}, {<<"A">>}, {"T2"}, {4}) \cup {WideEntry}

NextDelete ==
    \/ \E e \in DeleteEntries : Write(PostBook(e, TRUE), MaxRequests)
    \/ \E t \in tasks : Deferred(AuthorUpsertDone(t, TRUE))
    \/ \E t \in tasks : Deferred(LinkInsertDone(t, TRUE))
    \/ \E i \in {1, 2} : GetBookByISBN(i, TRUE)
    \/ \E i \in IsbnParams : Write(DeleteBookByISBN(i, TRUE), MaxRequests)
    \/ \E n \in Titles \cup {NoString} : Write(DeleteBooksByTitle(n, TRUE), MaxRequests)

SpecDelete == Init /\ [][NextDelete]_vars

\* Deletes by author name over inserted Books.
AuthorEntries ==
    Valid({1}, {<<"A">>}, {"T1"}, {4}) \cup Valid({2}, {<<"B", "A">>}, {"T1"}, {4})
    \cup Valid({1}, {<<"B">>}, {"T2"}, {4})

NextAuthor ==
    \/ \E e \in AuthorEntries : Write(PostBook(e, TRUE), MaxRequests)
    \/ \E t \in tasks : Deferred(AuthorUpsertDone(t, TRUE))
    \/ \E t \in tasks : Deferred(LinkInsertDone(t, TRUE))
    \/ \E i \in {1, 2} : GetBookByISBN(i, TRUE)
    \/ \E n \in Names \cup {NoString}, dbOk \in BOOLEAN :
           Write(DeleteBooksByAuthor(n, dbOk), MaxRequests)

SpecAuthor == Init /\ [][NextAuthor]_vars

\* Inserts, rating updates and the three deletes over the same catalog.
CatalogEntries ==
    Valid({1}, {<<"A">>}, {"T1"}, {4}) \cup Valid({2}, {<<"B", "A">>}, {"T2"}, {4})

NextCatalog ==
    \/ \E e \in CatalogEntries : Write(PostBook(e, TRUE), MaxRequests)
    \/ \E t \in tasks : Deferred(AuthorUpsertDone(t, TRUE))
    \/ \E t \in tasks : Deferred(LinkInsertDone(t, TRUE))
    \/ \E i \in {1, 2} : Write(UpdateBookRating(i, Ratings(3, 7, 0), TRUE), MaxRequests)
    \/ \E i \in {1, 2} : Write(DeleteBookByISBN(i, TRUE), MaxRequests)
    \/ \E n \in {"T1", "T2"} : Write(DeleteBooksByTitle(n, TRUE), MaxRequests)
    \/ \E n \in {"A", "B"} : Write(DeleteBooksByAuthor(n, TRUE), MaxRequests)

SpecCatalog == Init /\ [][NextCatalog]_vars

\* Paginated scans over inserted Books.
PageEntries ==
    Valid({1}, {<<"A">>}, {"T1"}, {4}) \cup Valid({2}, {<<"B", "A">>}, {"T1"}, {4})

\* Bodies of POST /books/pagination/offset: <<limit, offset>>.
PageBodies ==
    { <<1, 0>>, <<2, 3>>, <<0, -5>>, <<Undefined, Undefined>>, <<NotANumber, 1>> }

NextPage ==
    \/ \E e \in PageEntries : Write(PostBook(e, TRUE), MaxRequests)
    \/ \E t \in tasks : Deferred(AuthorUpsertDone(t, TRUE))
    \/ \E t \in tasks : Deferred(LinkInsertDone(t, TRUE))
    \/ \E b \in PageBodies, scanOk \in BOOLEAN : PageScan(b[1], b[2], scanOk) /\ scan' = scan
    \/ \E p \in pages, countOk \in BOOLEAN : PageCount(p, countOk) /\ scan' = scan

SpecPage == Init /\ [][NextPage]_vars

\* Inserts whose queries all succeed and by-ISBN reads; every deferred query
\* that is in flight completes (the pool answers each query it was given).
NextLive ==
    \/ \E e \in ValidEntries : Write(PostBook(e, TRUE), MaxRequests)
    \/ \E t \in tasks : Deferred(AuthorUpsertDone(t, TRUE))
    \/ \E t \in tasks : Deferred(LinkInsertDone(t, TRUE))
    \/ \E i \in {1, 2} : GetBookByISBN(i, TRUE)

SpecLive ==
    /\ Init /\ [][NextLive]_vars
    /\ WF_vars(\E t \in tasks : Deferred(AuthorUpsertDone(t, TRUE)))
    /\ WF_vars(\E t \in tasks : Deferred(LinkInsertDone(t, TRUE)))

\* The read routes over inserted Books.
ReadEntries ==
    Valid({1}, {<<"A">>}, {"T1"}, {2}) \cup Valid({1}, {<<"B", "A">>}, {"T2"}, {4})
    \cup Valid({2}, {<<"A">>}, {"T1"}, {4}) \cup Valid({2}, {<<"B", "A">>}, {"T1"}, {2})

\* Bodies of POST /books/rating: <<min, max, order>>.
RangeBodies ==
    { <<1, 5, "min-first">>, <<1, 5, "max-first">>, <<3, 5, "max-first">>,
      <<1, 3, "min-first">>,
      <<0, 5, "min-first">>, <<3, 1, "max-first">>,
      <<1, 5, "up">>, <<1, 5, NoString>>,
      <<Undefined, 5, "min-first">>, <<NotANumber, 5, "min-first">>,
      <<1, Undefined, "min-first">>, <<1, NotANumber, "max-first">>,
      <<1, Undefined, NoString>> }

NextRead ==
    \/ \E e \in ReadEntries : Write(PostBook(e, TRUE), MaxRequests)
    \/ \E t \in tasks : Deferred(AuthorUpsertDone(t, TRUE))
    \/ \E t \in tasks : Deferred(LinkInsertDone(t, TRUE))
    \/ \E i \in {1, 2} : GetBookByISBN(i, TRUE)
    \/ \E n \in Titles \cup {NoString} : GetBooksByTitle(n, TRUE)
    \/ \E n \in Names \cup {NoString} : GetBooksByAuthor(n, TRUE)
    \/ \E b \in RangeBodies : GetBooksByRating(b[1], b[2], b[3], TRUE)

SpecRead == Init /\ [][NextRead]_vars

\* By-ISBN reads whose result holds rows beyond the stored Book's.
ResultRow(title) ==
    WithAuthors(Row(1, 1999, "O", title, Ratings(4, 15, 3), Icons.large, Icons.small), <<"B">>)

BeyondRows == SUBSET {ResultRow(t) : t \in Titles}

NextResult ==
    \/ \E e \in ValidEntries : Write(PostBook(e, TRUE), MaxRequests)
    \/ \E t \in tasks : Deferred(AuthorUpsertDone(t, TRUE))
    \/ \E t \in tasks : Deferred(LinkInsertDone(t, TRUE))
    \/ \E beyond \in BeyondRows : GetBookByISBNOver(1, beyond)

SpecResult == Init /\ [][NextResult]_vars

\* The routes with :isbn at the ends of the ISBN range.
BoundaryIsbns == {-1, 0, 1, PowTen13 - 1, PowTen13, PowTen13 + 1}

BoundaryEntries == Valid({1}, {<<"A">>, <<"B", "A">>}, {"T1"}, {4})

NextBoundary ==
    \/ \E e \in BoundaryEntries : Write(PostBook(e, TRUE), MaxRequests)
    \/ \E t \in tasks : Deferred(AuthorUpsertDone(t, TRUE))
    \/ \E t \in tasks : Deferred(LinkInsertDone(t, TRUE))
    \/ \E i \in BoundaryIsbns : GetBookByISBN(i, TRUE)
    \/ \E i \in BoundaryIsbns : Write(DeleteBookByISBN(i, TRUE), MaxRequests)
    \/ \E i \in BoundaryIsbns :
           Write(UpdateBookRating(i, Ratings(3, 7, 0), TRUE), MaxRequests)

SpecBoundary == Init /\ [][NextBoundary]_vars

\* Inserts whose authors text names an author twice.
RepeatEntries ==
    Valid({1, 2}, {<<"A", "A">>}, {"T1"}, {4}) \cup Valid({1}, {<<"A">>, <<"B", "A", "B">>}, {"T2"}, {4})

NextRepeat ==
    \/ \E e \in RepeatEntries : Write(PostBook(e, TRUE), MaxRequests)
    \/ \E t \in tasks : Deferred(AuthorUpsertDone(t, TRUE))
    \/ \E t \in tasks : Deferred(LinkInsertDone(t, TRUE))
    \/ \E i \in {1, 2} : GetBookByISBN(i, TRUE)

SpecRepeat == Init /\ [][NextRepeat]_vars

\* Logins over stored accounts.  A row holds the salted hash of the
\* account's password; two rows may share a username.
AccountRow(id, username, password, salt) ==
    [account_id |-> id, username |-> username, salt |-> salt,
     salted_hash |-> generateHash(password, salt), firstname |-> "F", email |-> "E"]

AccountRows ==
    { AccountRow(1, "u", "p", "s1"), AccountRow(2, "u", "q", "s2"),
      AccountRow(3, "v", "p", "s2"), AccountRow(4, "v", "p", "s1") }

Usernames == {"u", "v", "w", NoString}
Passwords == {"p", "q", NoString}

InitLogin ==
    /\ books = {} /\ authors = {} /\ links = {} /\ tasks = {}
    /\ cascade \in BOOLEAN
    /\ accounts \in SUBSET AccountRows
    /\ scan = NoScan
    /\ ins = [i \in InsertIsbns |-> NoInsert]
    /\ nreq = 0
    /\ pages = {}
    /\ last = Response("none", [none |-> TRUE], Unsent, 0, <<>>)

NextLogin ==
    \E u \in Usernames, p \in Passwords, dbOk \in BOOLEAN : Login(u, p, dbOk)

SpecLogin == InitLogin /\ [][NextLogin]_vars

\* Requests whose storage query fails, on the routes with a catch and on
\* the paginated scan.
ErrorEntries == Valid({1}, {<<"A">>}, {"T1", "T2"}, {4})

NextErrors ==
    \/ \E e \in ErrorEntries, dbOk \in BOOLEAN : Write(PostBook(e, dbOk), MaxRequests)
    \/ \E t \in tasks : Deferred(AuthorUpsertDone(t, TRUE))
    \/ \E t \in tasks : Deferred(LinkInsertDone(t, TRUE))
    \/ \E dbOk \in BOOLEAN : GetBookByISBN(1, dbOk)
    \/ \E dbOk \in BOOLEAN : GetBooksByRating(1, 5, "min-first", dbOk)
    \/ \E dbOk \in BOOLEAN :
           Write(UpdateBookRating(1, Ratings(3, 7, 0), dbOk), MaxRequests)
    \/ \E scanOk \in BOOLEAN : PageScan(1, 0, scanOk) /\ scan' = scan
    \/ \E p \in pages, countOk \in BOOLEAN : PageCount(p, countOk) /\ scan' = scan

SpecErrors == Init /\ [][NextErrors]_vars

\* Inserts of one ISBN that name different authors and titles.
RaceEntries ==
    Valid({1}, {<<"A">>, <<"B">>}, {"T1", "T2"}, {4}) \cup Valid({2}, {<<"A">>}, {"T1"}, {4})

NextRace ==
    \/ \E e \in RaceEntries : Write(PostBook(e, TRUE), MaxRequests)
    \/ \E t \in tasks : Deferred(AuthorUpsertDone(t, TRUE))
    \/ \E t \in tasks : Deferred(LinkInsertDone(t, TRUE))
    \/ \E i \in {1, 2} : GetBookByISBN(i, TRUE)

SpecRace == Init /\ [][NextRace]_vars

\* Scans of a stored catalog that no request changes meanwhile.  The Books
\* were inserted naming A; the link of a Book may be missing (its insert
\* failed and was logged).
ScanLimits == {1, 2}

ScanEntry(i) == Entry(i, <<"A">>, "T1", "O", 1999, Ratings(4, 15, 3), Icons)

InitScan ==
    /\ \E S \in SUBSET {1, 2} :
          /\ books = {InsertValues(ScanEntry(i)) : i \in S}
          /\ authors = IF S = {} THEN {} ELSE UpsertAuthor({}, "A")
          /\ \E L \in SUBSET S :
                /\ links = {[isbn13 |-> i, author_id |-> 1] : i \in L}
                /\ ins = [i \in InsertIsbns |->
                            IF i \in S
                            THEN [entry |-> ScanEntry(i), status |-> 201, fresh |-> TRUE,
                                  overlap |-> FALSE, failed |-> i \notin L,
                                  lost |-> IF i \in L THEN {} ELSE {"A"},
                                  updated |-> FALSE]
                            ELSE NoInsert]
    /\ tasks = {}
    /\ cascade \in BOOLEAN
    /\ accounts = {}
    /\ \E l \in ScanLimits : scan = [NoScan EXCEPT !.limit = l]
    /\ nreq = 0
    /\ pages = {}
    /\ last = Response("none", [none |-> TRUE], Unsent, 0, <<>>)

NextScan ==
    \/ ScanRequest
    \/ ScanResponse

SpecScan == InitScan /\ [][NextScan]_vars

----------------------------------------------------------------------------
(* Insert and read back.                                                   *)

\* The insert that created the present row of ISBN i was answered 201 and no
\* rating update has changed the row since.
Inserted(i) == ins[i] # NoInsert /\ ins[i].status = 201 /\ ~ins[i].updated

\* Every deferred query of the insert of ISBN i has completed without error,
\* and no link or deferred query for i was left by an earlier insert.
Settled(i) ==
    /\ ins[i].fresh /\ ~ins[i].failed
    /\ \A t \in tasks : t.isbn13 # i

\* The Book of entry e as the inserted values give it, with authors text a.
BookOf(e, a) ==
    [isbn13 |-> e.isbn13, authors |-> a, publication |-> e.publication,
     original_title |-> e.original_title, title |-> e.title,
     ratings |-> [average |-> e.ratings.average, count |-> e.ratings.count,
                  rating_1 |-> e.ratings.rating1, rating_2 |-> e.ratings.rating2,
                  rating_3 |-> e.ratings.rating3, rating_4 |-> e.ratings.rating4,
                  rating_5 |-> e.ratings.rating5],
     icons |-> [large |-> e.icons.large, small |-> e.icons.small]]

\* s lists the names of the set S once each, in alphabetical order.
SortedJoinOf(s, S) ==
    /\ Range(s) = S
    /\ \A i, j \in 1..Len(s) : i < j => NameRank(s[i]) < NameRank(s[j])

ReadOf(i) == last.op = "getIsbn" /\ last.req.isbn = i /\ last.req.dbOk

----------------------------------------------------------------------------
(* Conflicting and concurrent inserts.                                     *)

\* The step is a POST /books for an ISBN that has a Book row.
InsertOnExisting ==
    /\ nreq' = nreq + 1
    /\ last'.op = "insert"
    /\ \E b \in books : b.isbn13 = last'.req.entry.isbn13

\* C3: an insert of an ISBN that already has a Book row is answered 400
\* 'Book exists' (the request being valid and the query not failing for
\* another reason) and leaves the Book rows, the Author rows, the link rows
\* and the deferred queries as they were.
C3_DuplicateInsertChangesNothing ==
    [][InsertOnExisting =>
        /\ books' = books /\ authors' = authors /\ links' = links /\ tasks' = tasks
        /\ (last'.req.dbOk /\ InsertValidator(last'.req.entry).r.sends = 0) =>
               (last'.status = 400 /\ last'.message = "Book exists")]_vars

\* A second insert of an ISBN, with another title, was answered 'Book exists'
\* and the first insert's row is there.
C3_Witness ==
    /\ last.op = "insert" /\ last.status = 400 /\ last.message = "Book exists"
    /\ \E b \in books : /\ b.isbn13 = last.req.entry.isbn13
                        /\ b.title # last.req.entry.title
                        /\ b = InsertValues(ins[b.isbn13].entry)

\* The Author rows named n, and the link rows of Book i to them.
AuthorRows(n) == {a \in authors : a.author_name = n}
LinkRows(i, n) == {l \in links : l.isbn13 = i /\ \E a \in AuthorRows(n) : a.author_id = l.author_id}

\* The insert of ISBN i named n and all its deferred queries have succeeded.
Named(i, n) ==
    /\ ins[i] # NoInsert /\ n \in Range(ins[i].entry.authors)
    /\ ~ins[i].failed
    /\ \A t \in tasks : t.isbn13 # i

\* C4: there is never more than one Author row of a name nor more than one
\* link row of a (Book, Author) pair, and once two inserts of different Books
\* that both name A have completed (no query of theirs failing) there is
\* exactly one Author row named A and exactly one link row to it from each of
\* the two Books, in every interleaving of their deferred queries.
C4_OneAuthorTwoLinks ==
    \A n \in Names :
        /\ Cardinality(AuthorRows(n)) <= 1
        /\ \A i \in InsertIsbns : Cardinality(LinkRows(i, n)) <= 1
        /\ \A i, j \in InsertIsbns :
               (i # j /\ Named(i, n) /\ Named(j, n)) =>
                   /\ Cardinality(AuthorRows(n)) = 1
                   /\ Cardinality(LinkRows(i, n) \cup LinkRows(j, n)) = 2

\* Two inserts naming A overlapped (the second arrived while the first one's
\* upsert of A was in flight and no Author row named A existed) and completed.
C4_Witness ==
    \E i, j \in InsertIsbns :
        /\ i # j /\ Named(i, "A") /\ Named(j, "A")
        /\ ins[j].overlap
        /\ Cardinality(AuthorRows("A")) = 1
        /\ Cardinality(LinkRows(i, "A") \cup LinkRows(j, "A")) = 2

----------------------------------------------------------------------------
(* Validation before storage.                                              *)

\* The step handles a new request of route op.
Handles(op) == nreq' = nreq + 1 /\ last'.op = op

ShapeValid(e) == \A k \in 1..Len(InsertChecks(e)) : InsertChecks(e)[k].ok

\* C2: an insert that fails a shape check is answered 400 and issues no
\* storage write: no Book, Author or link row is created or changed.
C2_InvalidInsertWritesNothing ==
    [][(Handles("insert") /\ ~ShapeValid(last'.req.entry)) =>
        /\ last'.status = 400
        /\ last'.queries = 0
        /\ books' = books /\ authors' = authors /\ links' = links]_vars

\* The aggregate has a field that is no number, an average outside [1, 5]
\* or a count below 0.
AggregateInvalid(ratings) ==
    /\ ratings # NullObject
    /\ \/ \E k \in 1..7 : ~IsNumber(ToCheck(ratings)[k])
       \/ JsLt(ratings.average, 1) \/ JsGt(ratings.average, 5)
       \/ \E k \in 2..7 : JsLt(ToCheck(ratings)[k], 0)

\* C5: a rating update with an invalid aggregate is answered 400 and
\* modifies no Book row.
C5_InvalidAggregateModifiesNothing ==
    [][(Handles("putRating") /\ AggregateInvalid(last'.req.ratings)) =>
        (last'.status = 400 /\ books' = books)]_vars

\* C6: a delete by title that N >= 2 Books (each with linked authors) have is
\* answered 200 with exactly those N Books as they were, each with its own
\* joined authors text, and removes all N.
C6_DeleteByTitleReturnsAll ==
    [][(/\ Handles("deleteTitle") /\ last'.req.dbOk
        /\ Cardinality({b \in books : b.title = last'.req.name}) >= 2
        /\ \A b \in books : b.title = last'.req.name => JoinedAuthors(b.isbn13) # {}) =>
        LET matched == {b \in books : b.title = last'.req.name}
        IN  /\ last'.status = 200
            /\ Len(last'.results) = Cardinality(matched)
            /\ Range(last'.results) = {toBook(ViewRow(b)) : b \in matched}
            /\ books' = books \ matched]_vars

ReadRoutes == {"getIsbn", "getTitle", "getAuthor", "getRating"}

\* C7: in every read's response the authors of each Book is the
\* alphabetically sorted join of all authors linked to that Book.
C7_AuthorsIsJoinOfAllLinked ==
    (last.op \in ReadRoutes /\ last.status = 200) =>
        \A k \in 1..Len(last.results) :
            SortedJoinOf(last.results[k].authors,
                {a.author_name : a \in JoinedAuthors(last.results[k].isbn13)})

\* The step was a rating-range read whose min, max and order pass as a range.
RangeRead ==
    /\ last.op = "getRating" /\ last.req.dbOk
    /\ IsNumber(last.req.min) /\ IsNumber(last.req.max)
    /\ 0 < last.req.min /\ last.req.min <= last.req.max
    /\ last.req.order \in {"min-first", "max-first"}

\* The response lists exactly the Books of S once each, ordered by average
\* as the request's order says.
ListsInOrder(S) ==
    /\ last.status = 200
    /\ Len(last.results) = Cardinality(S)
    /\ {last.results[k].isbn13 : k \in 1..Len(last.results)} = {b.isbn13 : b \in S}
    /\ \A k \in 1..Len(last.results) : \E b \in S :
           /\ b.isbn13 = last.results[k].isbn13
           /\ b.rating_avg = last.results[k].ratings.average
    /\ \A j, k \in 1..Len(last.results) : j < k =>
           IF last.req.order = "min-first"
           THEN last.results[j].ratings.average <= last.results[k].ratings.average
           ELSE last.results[j].ratings.average >= last.results[k].ratings.average

\* The range is refused: 400 and no query.
RangeRefused ==
    (/\ last.op = "getRating" /\ IsNumber(last.req.min) /\ IsNumber(last.req.max)
     /\ (last.req.min <= 0 \/ last.req.max < last.req.min)) =>
        (last.status = 400 /\ last.queries = 0)

InRange(b) == last.req.min <= b.rating_avg /\ b.rating_avg <= last.req.max

\* C8 as stated: a rating-range read with 0 < min <= max and a valid order
\* returns exactly the Books with min <= average <= max, ascending for
\* min-first and descending for max-first; with min <= 0 or max < min it is
\* answered 400 and issues no query.
C8_RatingRangeReturnsExactly ==
    /\ RangeRead => ListsInOrder({b \in books : InRange(b)})
    /\ RangeRefused

\* C8 amended: such a read returns exactly the Books with min <= average <=
\* max that have at least one linked author, in the order asked for; with
\* min <= 0 or max < min it is answered 400 and issues no query.
C8_RatingRangeReturnsLinked ==
    /\ RangeRead => ListsInOrder({b \in books : InRange(b) /\ JoinedAuthors(b.isbn13) # {}})
    /\ RangeRefused

\* A max-first read returned two Books of different averages, the higher
\* one first.
C8_Witness ==
    /\ RangeRead /\ last.req.order = "max-first" /\ last.status = 200
    /\ Len(last.results) = 2
    /\ last.results[1].ratings.average > last.results[2].ratings.average

\* C9: a rating-range read whose max is missing or no number is answered 400
\* 'Missing or invalid upper-bound parameter' and issues no query.
C9_MissingMaxRejected ==
    (last.op = "getRating" /\ ~IsNumber(last.req.max)) =>
        /\ last.status = 400
        /\ last.message = "Missing or invalid upper-bound parameter - please refer to documentation"
        /\ last.queries = 0

IsbnRoutes == {"getIsbn", "deleteIsbn", "putRating"}

\* C10: a by-ISBN read, by-ISBN delete or rating update whose ISBN is no
\* number or out of range is answered 400 and issues no storage query; no
\* Book is deleted or updated by it.
C10_InvalidIsbnTouchesNothing ==
    [][(/\ last'.op \in IsbnRoutes
        /\ (~IsNumber(last'.req.isbn) \/ last'.req.isbn < 0
            \/ last'.req.isbn > PowTen13)) =>
        (last'.status = 400 /\ last'.queries = 0 /\ books' = books)]_vars

----------------------------------------------------------------------------
(* Rating updates.                                                         *)

\* The step is a rating update with an ISBN the validator lets pass, an
\* aggregate that is valid, and a query that does not fail.
ValidUpdate ==
    /\ Handles("putRating") /\ last'.req.dbOk
    /\ IsNumber(last'.req.isbn) /\ last'.req.isbn >= 0 /\ last'.req.isbn < PowTen13
    /\ last'.req.ratings # NullObject /\ ~AggregateInvalid(last'.req.ratings)

\* Book b with its seven rating fields replaced by those of r.
Rerated(b, r) ==
    [b EXCEPT !.rating_avg = r.average, !.rating_count = r.count,
              !.rating_1_star = r.rating1, !.rating_2_star = r.rating2,
              !.rating_3_star = r.rating3, !.rating_4_star = r.rating4,
              !.rating_5_star = r.rating5]

\* C11: a rating update with a valid aggregate on an existing ISBN replaces
\* the seven stored rating fields with exactly the supplied values (the count
\* is not checked against the star counts) and leaves every other row alone;
\* on an ISBN that has no Book it is answered 404 and changes nothing.
C11_UpdateReplacesSevenFields ==
    [][ValidUpdate =>
        LET matched == {b \in books : b.isbn13 = last'.req.isbn}
        IN  /\ authors' = authors /\ links' = links
            /\ IF matched = {}
               THEN last'.status = 404 /\ books' = books
               ELSE /\ last'.status = 201
                    /\ books' = (books \ matched) \cup
                                    {Rerated(b, last'.req.ratings) : b \in matched}
                    /\ last'.results[1].ratings =
                           [average |-> last'.req.ratings.average,
                            count |-> last'.req.ratings.count,
                            rating_1 |-> last'.req.ratings.rating1,
                            rating_2 |-> last'.req.ratings.rating2,
                            rating_3 |-> last'.req.ratings.rating3,
                            rating_4 |-> last'.req.ratings.rating4,
                            rating_5 |-> last'.req.ratings.rating5]]_vars

\* An update was answered 201 and the stored row holds the supplied count,
\* which is not the sum of the supplied star counts, while another Book is
\* there too.
C11_Witness ==
    /\ last.op = "putRating" /\ last.status = 201 /\ last.sends = 1
    /\ \E b \in books :
           /\ b.isbn13 = last.req.isbn
           /\ b = Rerated(b, last.req.ratings)
           /\ b.rating_count # b.rating_1_star + b.rating_2_star + b.rating_3_star
                                   + b.rating_4_star + b.rating_5_star
           /\ b.rating_count # ins[b.isbn13].entry.ratings.count
    /\ \E c \in books : c.isbn13 # last.req.isbn

\* The request was a rating update with an ISBN the validator lets pass and
\* a ratings object that breaks a constraint.
InvalidUpdate ==
    /\ last.op = "putRating"
    /\ IsNumber(last.req.isbn) /\ last.req.isbn >= 0 /\ last.req.isbn < PowTen13
    /\ AggregateInvalid(last.req.ratings)

MissingField(r) == \E k \in 1..7 : ~IsNumber(ToCheck(r)[k])
OutOfRangeAverage(r) == JsLt(r.average, 1) \/ JsGt(r.average, 5)
NegativeCount(r) == \E k \in 2..7 : JsLt(ToCheck(r)[k], 0)

\* C12 as stated: the response is the error of the first violated constraint
\* in the order missing field, average outside [1, 5], negative count.
C12_FirstErrorAverageBeforeCount ==
    InvalidUpdate =>
        /\ last.status = 400
        /\ last.message = IF MissingField(last.req.ratings) THEN MissingMsg
                          ELSE IF OutOfRangeAverage(last.req.ratings) THEN AverageMsg
                          ELSE CountMsg

\* C12 amended: the response is the error of the first violated constraint
\* in the order missing field, negative count, average outside [1, 5]; an
\* aggregate with an out-of-range average and a negative count is answered
\* with the negative-count error.
C12_FirstErrorCountBeforeAverage ==
    InvalidUpdate =>
        /\ last.status = 400
        /\ last.message = IF MissingField(last.req.ratings) THEN MissingMsg
                          ELSE IF NegativeCount(last.req.ratings) THEN CountMsg
                          ELSE AverageMsg

\* An aggregate with average 0 and a negative count was answered with the
\* negative-count error.
C12_Witness ==
    /\ InvalidUpdate
    /\ OutOfRangeAverage(last.req.ratings) /\ NegativeCount(last.req.ratings)
    /\ ~MissingField(last.req.ratings)
    /\ last.status = 400 /\ last.message = CountMsg

----------------------------------------------------------------------------
(* Deletes.                                                                *)

\* The step is a delete by an ISBN the validator lets pass, its query not
\* failing.
KeyedDelete ==
    /\ Handles("deleteIsbn") /\ last'.req.dbOk
    /\ IsNumber(last'.req.isbn) /\ last'.req.isbn >= 0 /\ last'.req.isbn < PowTen13

\* C13: a delete by an ISBN that no Book has is answered 404 and leaves all
\* Book, Author and link rows unchanged.
C13_DeleteOfAbsentIsbn ==
    [][(KeyedDelete /\ \A b \in books : b.isbn13 # last'.req.isbn) =>
        /\ last'.status = 404 /\ last'.message = "No book with given ISBN"
        /\ books' = books /\ authors' = authors /\ links' = links]_vars

\* A delete was answered 404 while Book, Author and link rows were stored.
C13_Witness ==
    /\ last.op = "deleteIsbn" /\ last.status = 404 /\ last.sends = 1
    /\ \A b \in books : b.isbn13 # last.req.isbn
    /\ books # {} /\ authors # {} /\ links # {}

\* C14: a delete by the ISBN of a stored Book is answered 200 with the Book
\* as it was before the delete, its authors the sorted join of the authors
\* linked to it at that moment (null when none is linked), and removes that
\* Book row and no other; the pre-image and the delete belong to one step.
C14_DeleteReturnsPreImage ==
    [][KeyedDelete =>
        \A b \in books : b.isbn13 = last'.req.isbn =>
            /\ last'.status = 200
            /\ last'.results =
                   <<toBook(WithAuthors(b,
                        IF JoinedAuthors(b.isbn13) = {} THEN NullAuthors
                        ELSE string_agg(JoinedAuthors(b.isbn13))))>>
            /\ JoinedAuthors(b.isbn13) # {} =>
                   SortedJoinOf(last'.results[1].authors,
                                {a.author_name : a \in JoinedAuthors(b.isbn13)})
            /\ books' = books \ {b}
            /\ authors' = authors]_vars

\* A delete returned a Book with authors "A, B", the Book is gone and another
\* Book stayed.
C14_Witness ==
    /\ last.op = "deleteIsbn" /\ last.status = 200
    /\ Len(last.results) = 1 /\ last.results[1].authors = <<"A", "B">>
    /\ last.results[1].isbn13 = last.req.isbn
    /\ \A b \in books : b.isbn13 # last.req.isbn
    /\ books # {}

\* The Books linked to an Author named n.
LinkedTo(n) == {b \in books : LinkRows(b.isbn13, n) # {}}

----------------------------------------------------------------------------
(* Paginated scan.                                                         *)

\* The request was a paginated scan whose two queries succeeded.
Paged == last.op = "page" /\ last.req.scanOk /\ last.req.countOk

C17_OffsetBeyondTotal ==
    (Paged /\ IsNumber(last.req.offset) /\ last.req.offset >= last.scanned) =>
        /\ last.status = 200
        /\ last.results = <<>>
        /\ last.pagination.totalRecords = Cardinality(books)
        /\ last.pagination.offset = last.req.offset
        /\ last.pagination.limit =
               (IF IsNumber(last.req.limit) /\ last.req.limit > 0 THEN last.req.limit ELSE 16)
        /\ last.pagination.nextPage = last.pagination.limit + last.pagination.offset

\* A scan with offset 3 over two Books with linked authors was answered with
\* no results, totalRecords 2 and nextPage 5.
C17_Witness ==
    /\ Paged /\ last.req.offset = 3 /\ last.scanned = 2 /\ Joined(books) = books
    /\ last.results = <<>>
    /\ last.pagination.totalRecords = 2
    /\ last.pagination.nextPage = 5

----------------------------------------------------------------------------
(* The deferred author queries of an insert.                               *)

\* C19: the status of an insert that passes validation depends only on the
\* Book-row insert: it is 201 exactly when the row was inserted, whatever
\* becomes of the author upserts and link inserts, which change neither the
\* Book rows nor each other: a failing one leaves the other deferred queries
\* in flight, and every named author none of whose queries failed is linked
\* once its queries are done.
C19_AuthorFailuresAreSwallowed ==
    /\ [][/\ (Handles("insert") /\ ShapeValid(last'.req.entry)) =>
                 (last'.status = 201 <=> books' = books \cup {InsertValues(last'.req.entry)}
                                         /\ books' # books)
          /\ last'.op = "task" =>
                 /\ books' = books
                 /\ \E t \in tasks : \A u \in tasks \ {t} : u \in tasks']_vars
    /\ [](\A i \in InsertIsbns :
            (Inserted(i) /\ ins[i].fresh) =>
                \A n \in Range(ins[i].entry.authors) :
                    \/ n \in ins[i].lost
                    \/ \E t \in tasks : t.isbn13 = i /\ t.author = n
                    \/ LinkRows(i, n) # {})

\* An insert of authors "B, A" was answered 201, a query for B failed, and A
\* is linked all the same.
C19_Witness ==
    \E i \in InsertIsbns :
        /\ Inserted(i) /\ ins[i].fresh /\ ins[i].status = 201
        /\ ins[i].entry.authors = <<"B", "A">>
        /\ ins[i].lost = {"B"}
        /\ LinkRows(i, "A") # {} /\ LinkRows(i, "B") = {}
        /\ \A t \in tasks : t.isbn13 # i
        /\ \E b \in books : b.isbn13 = i

\* C20: the 201 of an insert is sent only when the Book row exists, and when
\* no storage step fails a link row for every author named in the request
\* eventually exists.
C20_LinksEventuallyExist ==
    /\ [][(Handles("insert") /\ last'.status = 201) =>
              InsertValues(last'.req.entry) \in books']_vars
    /\ \A i \in {1, 2} : \A n \in Names :
           (ins[i] # NoInsert /\ ins[i].status = 201 /\ n \in Range(ins[i].entry.authors))
               ~> (LinkRows(i, n) # {})

\* An insert of authors "B, A" was answered 201 and both are linked now.
C20_Witness ==
    \E i \in {1, 2} :
        /\ Inserted(i) /\ ins[i].status = 201
        /\ ins[i].entry.authors = <<"B", "A">>
        /\ LinkRows(i, "A") # {} /\ LinkRows(i, "B") # {}
        /\ \E b \in books : b = InsertValues(ins[i].entry)

----------------------------------------------------------------------------
(* Storage failures.                                                       *)

\* The request just handled had a storage query of its own fail, and its
\* handler has ended.
QueryFailed ==
    \/ last.op = "page" /\ (~last.req.scanOk \/ ~last.req.countOk)
    \/ /\ last.op \in {"insert", "getIsbn", "deleteIsbn", "deleteTitle", "deleteAuthor",
                       "getTitle", "getAuthor", "getRating", "putRating"}
       /\ last.queries >= 1 /\ ~last.req.dbOk

\* C18: a request of any catalog operation one of whose storage queries
\* failed is answered with status 500 and a { message } body.
C18_StorageFailureAnswered500 ==
    QueryFailed => (last.sends >= 1 /\ last.status = 500 /\ last.message = ServerError)

----------------------------------------------------------------------------
\* C21: a by-ISBN read whose query matched more than one row is answered
\* with a server error (500), never with a 404 or another client error.
C21_ManyRowsAnswered500 ==
    (last.op = "getIsbnOver" /\ last.req.rowCount > 1) => last.status = 500

\* The step was a list read whose query ran: by title or author name, or by
\* a rating range.
ListReadRan ==
    \/ last.op \in {"getTitle", "getAuthor"} /\ last.req.name # NoString
    \/ RangeRead

\* b satisfies the predicate of the list read.
Matches(b) ==
    CASE last.op = "getTitle" -> b.title = last.req.name
      [] last.op = "getAuthor" ->
            \E a \in JoinedAuthors(b.isbn13) : a.author_name = last.req.name
      [] OTHER -> InRange(b)

\* The response holds the Books of S, each once, and no other.
ReturnsOnce(S) ==
    /\ Len(last.results) = Cardinality(S)
    /\ {last.results[k].isbn13 : k \in 1..Len(last.results)} = {b.isbn13 : b \in S}

\* C22 as stated: every list read (by title, by author name, by rating
\* range) returns each Book that satisfies its predicate exactly once,
\* whatever number of authors, none included, the Book is linked to.
C22_ListReadReturnsEveryMatch ==
    ListReadRan => ReturnsOnce({b \in books : Matches(b)})

\* C22 amended: every list read returns each Book that satisfies its
\* predicate and is linked to at least one author exactly once, and no
\* other Book.
C22_ListReadReturnsEveryLinkedMatch ==
    ListReadRan => ReturnsOnce({b \in books : Matches(b) /\ JoinedAuthors(b.isbn13) # {}})

\* A read by title returned two Books, one linked to one author and one
\* linked to two.
C22_Witness ==
    /\ last.op = "getTitle" /\ last.status = 200 /\ Len(last.results) = 2
    /\ Len(last.results[1].authors) # Len(last.results[2].authors)

\* e has no original_title and passes every other check of the validator.
OmitsOriginalTitle(e) ==
    /\ e.original_title = NoString
    /\ \A k \in 1..Len(InsertChecks(e)) :
           InsertChecks(e)[k].name # "Original Title" => InsertChecks(e)[k].ok

\* C23: an insert that omits original_title, of an ISBN that is not stored,
\* is answered 201 and stores original_title equal to title.
C23_OmittedOriginalTitleIsTitle ==
    [][(/\ Handles("insert") /\ OmitsOriginalTitle(last'.req.entry)
        /\ \A b \in books : b.isbn13 # last'.req.entry.isbn13) =>
        /\ last'.status = 201
        /\ \E b \in books' : /\ b.isbn13 = last'.req.entry.isbn13
                             /\ b.original_title = last'.req.entry.title]_vars

\* C24: by-ISBN read, by-ISBN delete and rating update accept a numeric
\* ISBN exactly when 0 <= isbn < 10^13: an ISBN equal to 10^13, larger, or
\* negative is answered 400 'ISBN not in range'.
C24_IsbnAcceptedBelowPowTen13 ==
    (last.op \in IsbnRoutes /\ IsNumber(last.req.isbn)) =>
        ((0 <= last.req.isbn /\ last.req.isbn < PowTen13) <=>
         ~(/\ last.status = 400
           /\ last.message = "ISBN not in range - please refer to documentation"))

\* C25: a rating-range query with valid bounds and order that no Book
\* satisfies is answered 404 'No books fall within the interval requested'.
C25_EmptyRangeAnswered404 ==
    (RangeRead /\ \A b \in books : ~InRange(b)) =>
        /\ last.status = 404
        /\ last.message = "No books fall within the interval requested"

\* The authors text names n more than once.
Repeats(text, n) == Cardinality({k \in 1..Len(text) : text[k] = n}) > 1

\* C26: once the deferred queries of an insert whose authors text names an
\* author more than once are done, there is exactly one Author row of that
\* name and exactly one link row of the Book to it, and none of the insert's
\* queries has raised an error.
C26_RepeatedAuthorLinkedOnce ==
    \A i \in {1, 2} : \A n \in Names :
        (/\ ins[i] # NoInsert /\ Repeats(ins[i].entry.authors, n)
         /\ \A t \in tasks : t.isbn13 # i) =>
            /\ Cardinality(AuthorRows(n)) = 1
            /\ Cardinality(LinkRows(i, n)) = 1
            /\ ~ins[i].failed

\* The insert of authors "B, A, B" has completed: B has one row and one link.
C26_Witness ==
    /\ ins[1] # NoInsert /\ ins[1].entry.authors = <<"B", "A", "B">>
    /\ \A t \in tasks : t.isbn13 # 1
    /\ Cardinality(AuthorRows("B")) = 1 /\ Cardinality(LinkRows(1, "B")) = 1
    /\ Cardinality(LinkRows(1, "A")) = 1

\* C27: with or without cascading link deletion, no read returns a Book
\* that was deleted, and a Book inserted again under the ISBN of a deleted
\* one is read back with authors among those its own insert named only.
C27_ReinsertReadsOwnAuthors ==
    /\ (last.op \in ReadRoutes /\ last.status = 200) =>
           \A k \in 1..Len(last.results) :
               \E b \in books : b.isbn13 = last.results[k].isbn13
    /\ (last.op = "getIsbn" /\ last.status = 200 /\ ins[last.req.isbn] # NoInsert) =>
           Range(last.results[1].authors) \subseteq Range(ins[last.req.isbn].entry.authors)

----------------------------------------------------------------------------
(* Login.                                                                  *)

\* The accounts of the username of the login just handled.
Matching == {a \in accounts : a.username = last.req.username}

\* The login just handled gave a username and a password, and its query
\* did not fail.
LoginRan ==
    /\ last.op = "login" /\ last.req.dbOk
    /\ last.req.username # NoString /\ last.req.password # NoString

\* The password hashed with the salt of account a is a's stored hash.
HashMatches(a) == generateHash(last.req.password, a.salt) = a.salted_hash

\* The response carries a token.
Token == Len(last.results) = 1

\* C28: a login whose query does not fail is answered 200 with an access
\* token exactly when the username matches exactly one account and the
\* hash of the password with that account's salt equals the stored salted
\* hash; a missing username or password, an unknown username or a wrong
\* password is answered 400 without a token, and more than one matching
\* account is answered 500 without a token.
C28_LoginAnswers ==
    (last.op = "login" /\ last.req.dbOk) =>
        /\ (last.status = 200 /\ Token) <=>
               (/\ LoginRan /\ Cardinality(Matching) = 1
                /\ \A a \in Matching : HashMatches(a))
        /\ Token => \A a \in Matching : last.results[1].user.id = a.account_id
        /\ (\/ ~LoginRan
            \/ Matching = {}
            \/ Cardinality(Matching) = 1 /\ \A a \in Matching : ~HashMatches(a)) =>
               (last.status = 400 /\ ~Token)
        /\ (LoginRan /\ Cardinality(Matching) > 1) => (last.status = 500 /\ ~Token)

\* A login of a username that two accounts share, with the password of one
\* of them, was answered 500.
C28_Witness ==
    /\ LoginRan /\ Cardinality(Matching) = 2
    /\ \E a \in Matching : HashMatches(a)
    /\ last.status = 500 /\ ~Token

\* The login just handled was denied for its credentials: the username is
\* unknown, or it is the username of one account and the password is wrong.
Denied(l) ==
    /\ l.op = "login" /\ l.req.dbOk
    /\ l.req.username # NoString /\ l.req.password # NoString
    /\ LET m == {a \in accounts : a.username = l.req.username}
       IN  \/ m = {}
           \/ /\ Cardinality(m) = 1
              /\ \A a \in m : generateHash(l.req.password, a.salt) # a.salted_hash

\* What the client receives of a response.
Received(l) ==
    [status |-> l.status, message |-> l.message, sends |-> l.sends, results |-> l.results]

\* C29: a login of an unknown username and a login of a known username
\* with a wrong password are answered alike, 400 'Invalid Credentials': two
\* denied logins, one after the other, receive the same response.
C29_DeniedLoginsAlike ==
    /\ [](Denied(last) => (/\ last.status = 400 /\ last.message = "Invalid Credentials"
                           /\ last.results = <<>>))
    /\ [][(Denied(last) /\ Denied(last')) => Received(last') = Received(last)]_vars

\* A login of a known username with a wrong password was answered 400
\* 'Invalid Credentials' while another username is unknown.
C29_Witness ==
    /\ Denied(last) /\ Cardinality(Matching) = 1
    /\ \E u \in Usernames \ {NoString} : \A a \in accounts : a.username # u
    /\ last.status = 400 /\ last.message = "Invalid Credentials"

----------------------------------------------------------------------------
(* Responses to storage failures.                                          *)

\* The request recorded in l had a storage query fail with an error other
\* than a duplicate-key conflict.
StorageFailed(l) ==
    \/ l.op = "page" /\ (~l.req.scanOk \/ ~l.req.countOk)
    \/ /\ l.op \in {"insert", "getIsbn"}
       /\ l.queries >= 1 /\ ~l.req.dbOk
    \/ /\ l.op \in {"getRating", "putRating"}
       /\ l.queries >= 1 /\ ~l.req.dbOk
       /\ l.detail # DuplicateDetail

\* The status and body of a response.
Answer(l) == [status |-> l.status, message |-> l.message, results |-> l.results]

\* C30: every response to a storage failure other than a duplicate-key
\* conflict is status 500 with the body { message: 'server error - contact
\* support' }, and two runs of the same request whose storage errors differ
\* in content, one after the other, receive the same response.
C30_StorageFailureAnsweredAlike ==
    /\ [](StorageFailed(last) =>
              Answer(last) = [status |-> 500, message |-> ServerError, results |-> <<>>])
    /\ [][(/\ StorageFailed(last) /\ StorageFailed(last')
           /\ last'.op = last.op /\ last'.req = last.req) =>
              Answer(last') = Answer(last)]_vars

----------------------------------------------------------------------------
(* One response per request.                                               *)

\* C31: in every route each request causes at most one response to be
\* sent: no middleware or handler sends after a response was sent for the
\* same request.
C31_AtMostOneSend == last.sends <= 1

----------------------------------------------------------------------------
(* Invariants of the stored rows.                                          *)

\* The six rating counts of a Book row.
CountsOf(b) ==
    {b.rating_count, b.rating_1_star, b.rating_2_star, b.rating_3_star,
     b.rating_4_star, b.rating_5_star}

\* C32: in every reachable state every stored Book has 1 <= average <= 5
\* and its six rating counts >= 0, whatever inserts and rating updates were
\* handled, those answered 400 included.
C32_StoredRatingsInRange ==
    \A b \in books :
        /\ IsNumber(b.rating_avg) /\ 1 <= b.rating_avg /\ b.rating_avg <= 5
        /\ \A c \in CountsOf(b) : IsNumber(c) /\ c >= 0

\* C33: in every reachable state every link row refers to a stored Book row
\* and a stored Author row, also when a delete of the Book takes effect
\* between the insert of its row and the insert's deferred author and link
\* queries.
C33_LinksReferToStoredRows ==
    \A l \in links :
        /\ \E b \in books : b.isbn13 = l.isbn13
        /\ \E a \in authors : a.author_id = l.author_id

----------------------------------------------------------------------------
(* Concurrent inserts of one ISBN.                                         *)

\* The names the insert that created the row of ISBN i gave.
WinnerNames(i) == IF ins[i] = NoInsert THEN {} ELSE Range(ins[i].entry.authors)

\* C34: of two inserts of the same ISBN that run concurrently exactly one
\* is answered 201 and the other 400 'Book exists'; exactly one Book row
\* results and it holds the winner's fields; only the winner's author names
\* are upserted and linked to that ISBN.
C34_OneWinnerPerIsbn ==
    /\ [][(Handles("insert") /\ \E b \in books : b.isbn13 = last'.req.entry.isbn13) =>
             /\ last'.status = 400 /\ last'.message = "Book exists"
             /\ books' = books /\ tasks' = tasks /\ ins' = ins
             /\ authors' = authors /\ links' = links]_vars
    /\ [][(Handles("insert") /\ \A b \in books : b.isbn13 # last'.req.entry.isbn13) =>
             /\ last'.status = 201
             /\ books' = books \cup {InsertValues(last'.req.entry)}]_vars
    /\ [](\A i \in {1, 2} :
            /\ Cardinality({b \in books : b.isbn13 = i}) <= 1
            /\ \A b \in books : b.isbn13 = i =>
                   /\ ins[i] # NoInsert /\ ins[i].status = 201
                   /\ b = InsertValues(ins[i].entry)
            /\ \A t \in tasks : t.isbn13 = i => t.author \in WinnerNames(i)
            /\ \A n \in Names : LinkRows(i, n) # {} => n \in WinnerNames(i))
    /\ [](\A a \in authors : \E i \in {1, 2} : a.author_name \in WinnerNames(i))

\* An insert of ISBN 1 naming B was answered 400 'Book exists' while the
\* author upsert of the insert that won, naming A, was still in flight.
C34_Witness ==
    /\ last.op = "insert" /\ last.status = 400 /\ last.message = "Book exists"
    /\ last.req.entry.isbn13 = 1 /\ last.req.entry.authors = <<"B">>
    /\ ins[1] # NoInsert /\ ins[1].status = 201 /\ ins[1].entry.authors = <<"A">>
    /\ ins[1].entry.title # last.req.entry.title
    /\ \E t \in tasks : t.isbn13 = 1 /\ t.stage = "upsert"
    /\ \A a \in authors : a.author_name # "B"

----------------------------------------------------------------------------
(* Read and delete by ISBN.                                                *)

\* C35: by-ISBN read and by-ISBN delete agree on existence: a delete is
\* answered 404 exactly when a read of the same ISBN in the state the
\* delete found would be answered 404, also for a Book without author links.
C35_DeleteAgreesWithRead ==
    [][KeyedDelete =>
        ((last'.status = 404) <=>
         (GetByIsbnOutcome(last'.req.isbn, TRUE).r.status = 404))]_vars

----------------------------------------------------------------------------
(* A scan of all pages.                                                    *)

\* C36: with no concurrent mutation, a scan from offset 0 that follows
\* nextPage until a page comes back empty has received exactly totalRecords
\* Books in total, each stored Book exactly once.
C36_ScanReturnsEveryBookOnce ==
    scan.done =>
        /\ Len(scan.got) = scan.total
        /\ \A b \in books :
               Cardinality({k \in 1..Len(scan.got) : scan.got[k] = b.isbn13}) = 1

\* C37: every Book row created by an insert has an ISBN in the range
\* 0 <= isbn < 10^13.
C37_StoredIsbnInRange ==
    \A b \in books :
        /\ IsNumber(b.isbn13)
        /\ 0 <= b.isbn13
        /\ b.isbn13 < PowTen13

\* C38: a rating update changes only the seven rating fields of the Book with
\* the given ISBN: that Book's title, original title, publication year and icon
\* URLs, every other Book, and all Author and link rows are unchanged.
RatingUpdateRan == nreq' = nreq + 1 /\ last'.op = "putRating"

Unrated(b) ==
    [isbn13 |-> b.isbn13, publication_year |-> b.publication_year,
     original_title |-> b.original_title, title |-> b.title,
     image_url |-> b.image_url, image_small_url |-> b.image_small_url]

C38_RatingUpdateFrame ==
    [][RatingUpdateRan =>
          /\ authors' = authors
          /\ links' = links
          /\ {Unrated(b) : b \in books'} = {Unrated(b) : b \in books}
          /\ Cardinality(books') = Cardinality(books)
          /\ \A b \in books : b.isbn13 # last'.req.isbn => b \in books']_vars

C38_Witness ==
    /\ last.op = "putRating"
    /\ last.status = 201
    /\ authors # {}
    /\ links # {}
    /\ \E b \in books, c \in books :
           /\ b.isbn13 = last.req.isbn
           /\ b.rating_avg = last.req.ratings.average
           /\ b.rating_count = last.req.ratings.count
           /\ b.rating_count # ins[b.isbn13].entry.ratings.count
           /\ b.title = ins[b.isbn13].entry.title
           /\ c.isbn13 # b.isbn13
           /\ c.rating_count = ins[c.isbn13].entry.ratings.count

\* C39: no catalog operation removes an Author row: across any sequence of
\* inserts, updates and deletes (by ISBN, title or author) the set of Author
\* rows only grows, so Authors whose Books were all deleted remain stored.
C39_AuthorRowsOnlyGrow == [][authors \subseteq authors']_vars

C39_Witness ==
    /\ last.op \in {"deleteIsbn", "deleteTitle", "deleteAuthor"}
    /\ last.status = 200
    /\ tasks = {}
    /\ \E a \in authors :
           \A l \in links : l.author_id = a.author_id => \A b \in books : b.isbn13 # l.isbn13

=============================================================================
